---- MODULE Spec2Model ----
(***************************************************************************)
(* A model of file-insights: the directory scan (parser.py), the video     *)
(* enrichment (video.py), the scan command (main.py), the batch store      *)
(* (database.py) and the aggregation (insights.py).                        *)
(*                                                                         *)
(* Strings are TLA+ strings; None is the empty tuple and a present         *)
(* optional value v is the one-element tuple <<v>>.                        *)
(***************************************************************************)
EXTENDS Integers, Sequences, FiniteSets, TLC

VARIABLES
    \* ---- inputs of the scan command (main.py scan) and its environment
    directory,        \* the DIRECTORY argument, a path string
    rootIsDir,        \* whether DIRECTORY is a directory
    recursive,        \* --recursive/--no-recursive
    exclude,          \* --exclude patterns, a tuple of strings
    video_metadata,   \* --video-metadata
    db_save,          \* --db-save
    db_connection,    \* --db-connection / DATABASE_URL: "none", "bad" or "ok"
    db_available,     \* DATABASE_AVAILABLE
    verbose,          \* --verbose
    output,           \* whether --output was given
    fs,               \* the files of the tree: size and first 1000 characters
    now,              \* the wall clock, seconds
    \* ---- state of the scan command
    pc,               \* position of the scan command
    paths_to_process, \* FileParser.parse_directory: the candidate paths
    idx,              \* index of the next candidate path
    result,           \* FileParser.parse_directory: the records built so far
    files,            \* scan: the list returned by parse_directory
    stat_failed,      \* paths whose stat() raised
    read_failed,      \* paths whose preview read raised
    probed,           \* paths for which VideoFileClip was invoked
    probe_failed,     \* paths whose clip could not be opened
    enrich_error,     \* paths where an exception occurred inside the enrichment
    faults,           \* number of files so far for which something raised
    db_error,         \* whether "Database error" was reported
    saved_count,      \* what store_file_infos returned to scan
    insights,         \* Insights.data, or None
    displayed,        \* whether insights.display() ran
    written,          \* whether the output file was written
    report,           \* the JSON document in the output file, once written
    exit_code,        \* return value of scan, or None
    \* ---- state of DatabaseManager.store_file_infos
    st_pc,            \* position inside store_file_infos
    st_infos,         \* its file_infos argument
    st_i,             \* index of the record being stored
    st_count,         \* count
    st_errors,        \* errors, as the list of record indexes
    st_attempted,     \* the record indexes whose INSERT was executed
    st_commit,        \* whether conn.commit() was called
    st_files_rows,    \* rows of files this call inserted (record indexes)
    st_video_rows,    \* rows of video_metadata this call inserted (record indexes)
    st_return,        \* the returned count, or None
    st_retrieved,     \* what retrieve_file_infos returned, or None
    st_table,         \* the rows earlier calls committed to files, joined
                      \* with their video_metadata rows
    st_aborted,       \* whether the server aborted the open transaction
    st_deleted        \* what delete_all_files returned, or None

scanInputs == <<directory, rootIsDir, recursive, exclude, video_metadata, db_save,
                db_connection, db_available, verbose, output, fs, now>>
scanState  == <<pc, paths_to_process, idx, result, files, stat_failed, read_failed,
                probed, probe_failed, enrich_error, faults, db_error, saved_count,
                insights, displayed, written, report, exit_code>>
storeVars  == <<st_pc, st_infos, st_i, st_count, st_errors, st_attempted, st_commit,
                st_files_rows, st_video_rows, st_return, st_retrieved,
                st_table, st_aborted, st_deleted>>
vars == <<scanInputs, scanState, storeVars>>

None == <<>>
Some(v) == <<v>>

(***************************************************************************)
(* Strings                                                                 *)
(***************************************************************************)
StartsWith(s, prefix) ==
    Len(s) >= Len(prefix) /\ SubSeq(s, 1, Len(prefix)) = prefix

\* str.lower() on the letters the model's file names use
LowerChar(c) ==
    CASE c = "V" -> "v"
      [] c = "M" -> "m"
      [] c = "P" -> "p"
      [] OTHER -> c

RECURSIVE Lower(_)
Lower(s) == IF Len(s) = 0 THEN s ELSE LowerChar(Head(s)) \o Lower(Tail(s))

\* position of the last "." of s, 0 when there is none (str.rfind, 1-based)
RECURSIVE RFindDot(_)
RFindDot(s) ==
    IF Len(s) = 0 THEN 0
    ELSE IF SubSeq(s, Len(s), Len(s)) = "." THEN Len(s)
    ELSE RFindDot(SubSeq(s, 1, Len(s) - 1))

\* position of the last "/" of s, 0 when there is none
RECURSIVE RFindSlash(_)
RFindSlash(s) ==
    IF Len(s) = 0 THEN 0
    ELSE IF SubSeq(s, Len(s), Len(s)) = "/" THEN Len(s)
    ELSE RFindSlash(SubSeq(s, 1, Len(s) - 1))

(***************************************************************************)
(* pathlib                                                                 *)
(***************************************************************************)
\* str(Path(root) / name): Path(".") / "a" is Path("a")
JoinPath(root, name) == IF root = "." THEN name ELSE root \o "/" \o name

\* Path.name
PathName(p) == SubSeq(p, RFindSlash(p) + 1, Len(p))

\* str(Path.parent)
PathParent(p) ==
    IF RFindSlash(p) = 0 THEN "."
    ELSE IF RFindSlash(p) = 1 THEN "/"
    ELSE SubSeq(p, 1, RFindSlash(p) - 1)

\* Path.suffix: from the last dot of the name, unless the dot leads or ends it
PathSuffix(p) ==
    LET name == PathName(p)
        i == RFindDot(name)
    IN  IF 1 < i /\ i < Len(name) THEN SubSeq(name, i, Len(name)) ELSE ""

(***************************************************************************)
(* fnmatch.fnmatch on POSIX: "*" matches any run of characters, "/"        *)
(* included, "?" any one character, anything else itself.                  *)
(***************************************************************************)
RECURSIVE FnMatch(_, _)
FnMatch(s, pat) ==
    IF Len(pat) = 0 THEN Len(s) = 0
    ELSE IF Head(pat) = "*"
         THEN IF Len(pat) = 1 THEN TRUE    \* a last star takes all that is left
              ELSE IF SubSeq(pat, 2, 2) = "*"
              THEN FnMatch(s, Tail(pat))   \* consecutive stars are compressed to one
              ELSE FnMatch(s, Tail(pat)) \/ (Len(s) > 0 /\ FnMatch(Tail(s), pat))
    ELSE IF Len(s) = 0 THEN FALSE
    ELSE IF Head(pat) = "?" THEN FnMatch(Tail(s), Tail(pat))
    ELSE Head(pat) = Head(s) /\ FnMatch(Tail(s), Tail(pat))

\* Config.DEFAULT_EXCLUDE_PATTERNS
DEFAULT_EXCLUDE_PATTERNS ==
    << "**/.*", "**/__pycache__/**", "**/*.pyc", "**/node_modules/**", "**/venv/**",
       "**/.git/**", "**/.svn/**", "**/.hg/**", "**/.vscode/**", "**/.idea/**" >>

\* FileParser._should_exclude with the given exclude_patterns
ShouldExclude(patterns, path_str) ==
    \E k \in 1..Len(patterns) : FnMatch(path_str, patterns[k])

(***************************************************************************)
(* The directory tree that is scanned.  A directory is named by its path   *)
(* relative to DIRECTORY ("" is DIRECTORY itself).  TreeDirs and TreeFiles *)
(* name the entries of a directory; the order in which os.walk and iterdir *)
(* list them is the file system's, any of Listings.                        *)
(***************************************************************************)
TreeDirs(node) ==
    CASE node = "" -> << ".git", "sub" >>
      [] OTHER -> << >>

TreeFiles(node) ==
    CASE node = ""     -> << "a.txt" >>
      [] node = ".git" -> << "config" >>
      [] node = "sub"  -> << "b.py", "V.MP4" >>
      [] OTHER -> << >>

TreeChild(node, name) == IF node = "" THEN name ELSE node \o "/" \o name

AllFiles == { "a.txt", ".git/config", "sub/b.py", "sub/V.MP4" }

\* the tree-relative name of a path built from `root`
RelOf(root, path_str) ==
    IF root = "." THEN path_str ELSE SubSeq(path_str, Len(root) + 2, Len(path_str))

\* st_ctime and st_mtime of a file, seconds
FileCTime(rel) ==
    CASE rel = "a.txt" -> 100 [] rel = ".git/config" -> 2000
      [] rel = "sub/b.py" -> 5000 [] OTHER -> 80000
FileMTime(rel) == FileCTime(rel) + 1

(***************************************************************************)
(* parser.py                                                               *)
(***************************************************************************)
\* file_insights.constants, imported by parser.py and video.py
COMMON_VIDEO_EXTENSIONS == { ".mp4", ".avi", ".mkv", ".mov" }
COMMON_BINARY_EXTENSIONS ==
    COMMON_VIDEO_EXTENSIONS \cup { ".jpg", ".png", ".mp3", ".zip", ".exe", ".pdf", ".pyc" }

\* mimetypes.guess_type(str(file_path))[0] for the suffixes of the tree
GuessType(path_str) ==
    LET ext == Lower(PathSuffix(path_str))
    IN  CASE ext = ".txt"  -> Some("text/plain")
          [] ext = ".py"   -> Some("text/x-python")
          [] ext = ".json" -> Some("application/json")
          [] ext = ".mp4"  -> Some("video/mp4")
          [] ext = ".jpg"  -> Some("image/jpeg")
          [] ext = ".pyc"  -> Some("application/x-python-code")
          [] OTHER -> None

\* mime_type.startswith(("text/", "application/json"))
TextLike(mime) == StartsWith(mime, "text/") \/ StartsWith(mime, "application/json")

\* the FileInfo dataclass, video fields at their defaults
FileInfo(path, size, extension, created_time, modified_time, content_preview, mime_type) ==
    [ path |-> path, size |-> size, extension |-> extension,
      created_time |-> created_time, modified_time |-> modified_time,
      content_preview |-> content_preview, mime_type |-> mime_type,
      video_duration |-> None, video_resolution |-> None, video_fps |-> None,
      video_codec |-> None, audio_codec |-> None ]

\* FileInfo.is_binary
is_binary(f) == IF f.mime_type # None THEN ~TextLike(f.mime_type[1]) ELSE FALSE

\* FileInfo.is_video
is_video(f) == f.extension \in COMMON_VIDEO_EXTENSIONS

\* FileInfo.has_video_metadata
has_video_metadata(f) == is_video(f) /\ f.video_duration # None

\* FileInfo.name
name(f) == PathName(f.path)

\* line 112 with every directory kept
PruneNever(patterns, dir_str) == FALSE

\* FileParser._walk_directory: os.walk from root_str, pruning excluded directories
Prune(patterns, dir_str) == ShouldExclude(patterns, dir_str)

\* the orders in which a listing may give the entries
Orders(entries) ==
    { [ k \in 1..Len(entries) |-> entries[p[k]] ] : p \in Permutations(1..Len(entries)) }

TreeNodes == { "", ".git", "sub" }

\* what os.scandir may answer: for every directory, its directories and its
\* files, each in some order
Listings ==
    { l \in [ TreeNodes -> UNION { [ dirs : Orders(TreeDirs(n)), files : Orders(TreeFiles(n)) ] :
                                     n \in TreeNodes } ] :
        \A n \in TreeNodes : l[n].dirs \in Orders(TreeDirs(n))
                              /\ l[n].files \in Orders(TreeFiles(n)) }

RECURSIVE WalkFrom(_, _, _, _)
WalkFrom(patterns, root_str, node, listing) ==
    LET here == [ k \in 1..Len(listing[node].files) |->
                    JoinPath(root_str, listing[node].files[k]) ]
        kept == SelectSeq(here, LAMBDA p : ~ShouldExclude(patterns, p))
        RECURSIVE Below(_)
        Below(k) ==
            IF k > Len(listing[node].dirs) THEN << >>
            ELSE LET d == listing[node].dirs[k]
                 IN  (IF Prune(patterns, JoinPath(root_str, d)) THEN << >>
                      ELSE WalkFrom(patterns, JoinPath(root_str, d), TreeChild(node, d),
                                    listing))
                     \o Below(k + 1)
    IN  kept \o Below(1)

WalkDirectory(patterns, directory_path, listing) ==
    WalkFrom(patterns, directory_path, "", listing)

\* the enumeration of line 96 with rglob for iterdir
IterdirFilesRecursive(directory_path, listing) ==
    WalkDirectory(<< >>, directory_path, listing)

\* [p for p in directory_path.iterdir() if p.is_file()]
IterdirFiles(directory_path, listing) ==
    [ k \in 1..Len(listing[""].files) |-> JoinPath(directory_path, listing[""].files[k]) ]

\* f.read(1000): the first 1000 characters, as their length and the number of
\* null and of other control characters (below 32, not \n \r \t) among them
PREVIEW_CHARS == 1000
ReadPrefix(file) ==
    [ len |-> IF file.size < PREVIEW_CHARS THEN file.size ELSE PREVIEW_CHARS,
      nuls |-> file.nuls, ctrl |-> file.ctrl ]

\* the test of parser.py line 166
LooksBinary(content) == content.nuls > 0 \/ (content.nuls + content.ctrl) * 10 > content.len

(***************************************************************************)
(* video.py: extract_video_metadata                                        *)
(*                                                                         *)
(* A clip is what moviepy answers for one file: whether the import, the    *)
(* size lookup and VideoFileClip(...) succeed, what each attribute holds   *)
(* (None when the attribute is missing or None), whether reading it        *)
(* raises, and whether close() raises.                                     *)
(***************************************************************************)
MIN_VIDEO_SIZE == 10000

ClipOK ==
    [ import_ok |-> TRUE, getsize_ok |-> TRUE, open_ok |-> TRUE,
      duration_raises |-> FALSE, duration |-> Some(5),
      wh_raises |-> FALSE, w |-> Some(640), h |-> Some(480), size |-> Some(<<640, 480>>),
      fps_raises |-> FALSE, fps |-> Some(30),
      codec_name |-> None, audio_codec |-> None, close_raises |-> FALSE ]

ClipNoImport     == [ ClipOK EXCEPT !.import_ok = FALSE ]
ClipGetsizeFails == [ ClipOK EXCEPT !.getsize_ok = FALSE ]
ClipOpenFails    == [ ClipOK EXCEPT !.open_ok = FALSE ]
ClipNoDuration   == [ ClipOK EXCEPT !.duration = None ]
ClipFpsRaises    == [ ClipOK EXCEPT !.fps_raises = TRUE ]
ClipCloseRaises  == [ ClipOK EXCEPT !.close_raises = TRUE ]
\* a clip whose probe answers a width of zero, a negative height and an fps of zero
ClipNonPositive  == [ ClipOK EXCEPT !.w = Some(0), !.h = Some(-480),
                                    !.size = Some(<<0, -480>>), !.fps = Some(0) ]

Clips == { ClipOK, ClipNoImport, ClipGetsizeFails, ClipOpenFails, ClipNoDuration,
           ClipFpsRaises, ClipCloseRaises, ClipNonPositive }

\* lines 101-102, "except Exception as e: print(...)": the exception is swallowed
HandleClipError(exc) == None

\* lines 104-105, "except Exception as e: print(...)": the exception is swallowed
HandleExtractErrorReraise(exc) == exc

HandleExtractError(exc) == None

\* lines 48-56: duration
SetDuration(info, clip) ==
    IF ~clip.duration_raises /\ clip.duration # None
    THEN [ info EXCEPT !.video_duration = clip.duration ] ELSE info

\* lines 58-69: resolution, from w and h, else from size
SetResolution(info, clip) ==
    IF clip.wh_raises THEN info
    ELSE IF clip.w # None /\ clip.h # None /\ clip.w[1] # 0 /\ clip.h[1] # 0
         THEN [ info EXCEPT !.video_resolution = Some(<<clip.w[1], clip.h[1]>>) ]
    ELSE IF clip.size # None
         THEN [ info EXCEPT !.video_resolution = clip.size ]
    ELSE info

\* lines 71-79: fps
SetFps(info, clip) ==
    IF ~clip.fps_raises /\ clip.fps # None
    THEN [ info EXCEPT !.video_fps = clip.fps ] ELSE info

\* lines 81-92: codecs
SetCodecs(info, clip) ==
    [ info EXCEPT !.video_codec = clip.codec_name,
                  !.audio_codec = IF clip.audio_codec # None THEN clip.audio_codec ELSE @ ]

\* lines 42-102: open the clip, read its properties, close it
ReadClip(info, clip) ==
    IF ~clip.open_ok
    THEN [ info |-> info, exc |-> HandleClipError(Some("VideoFileClip")) ]
    ELSE [ info |-> SetCodecs(SetFps(SetResolution(SetDuration(info, clip), clip), clip), clip),
           exc  |-> IF clip.close_raises THEN HandleClipError(Some("close")) ELSE None ]

\* whether the small-file short-circuit of lines 33-37 is taken
TooSmallNever(file_size) == FALSE

TooSmall(file_size) == file_size < MIN_VIDEO_SIZE

\* extract_video_metadata(file_info), with file_size what os.path.getsize answers.
\* info: the returned record; probe: whether VideoFileClip was invoked;
\* exc: the exception that leaves the function, None when it returns.
ExtractVideoMetadata(file_info, file_size, clip) ==
    IF ~clip.import_ok
    THEN [ info |-> file_info, probe |-> FALSE, exc |-> HandleExtractError(Some("ImportError")) ]
    ELSE IF ~clip.getsize_ok
    THEN [ info |-> file_info, probe |-> FALSE, exc |-> HandleExtractError(Some("OSError")) ]
    ELSE IF TooSmall(file_size)
    THEN [ info |-> file_info, probe |-> FALSE, exc |-> None ]
    ELSE LET r == ReadClip(file_info, clip)
         IN  [ info |-> r.info, probe |-> TRUE, exc |-> HandleExtractError(r.exc) ]

\* whether some exception was raised (and handled) inside extract_video_metadata
ExceptionInside(file_size, clip) ==
    \/ ~clip.import_ok
    \/ clip.import_ok /\ ~clip.getsize_ok
    \/ /\ clip.import_ok /\ clip.getsize_ok /\ ~TooSmall(file_size)
       /\ (~clip.open_ok \/ clip.duration_raises \/ clip.wh_raises \/ clip.fps_raises
           \/ clip.close_raises)

\* whether the probe failed: moviepy or the size lookup failed, or the clip
\* could not be opened
ProbeFailure(file_size, clip) ==
    \/ ~clip.import_ok
    \/ ~clip.getsize_ok
    \/ ~TooSmall(file_size) /\ ~clip.open_ok

(***************************************************************************)
(* parser.py: FileParser._get_file_info                                    *)
(***************************************************************************)
\* lines 155-176 without the size test of line 157
ContentPreviewNoSizeLimit(likely_binary, file, read_ok) ==
    IF ~likely_binary
    THEN IF ~read_ok THEN None
         ELSE IF LooksBinary(ReadPrefix(file)) THEN None
         ELSE Some(ReadPrefix(file))
    ELSE None

\* lines 155-176 with "if content:" before line 171
ContentPreviewIfContent(likely_binary, file, read_ok) ==
    IF ~likely_binary /\ file.size < 1024 * 1024
    THEN IF ~read_ok THEN None
         ELSE IF LooksBinary(ReadPrefix(file)) \/ ReadPrefix(file).len = 0 THEN None
         ELSE Some(ReadPrefix(file))
    ELSE None

\* lines 155-176: the preview of a file that is not likely binary and under 1 MiB
ContentPreview(likely_binary, file, read_ok) ==
    IF ~likely_binary /\ file.size < 1024 * 1024
    THEN IF ~read_ok THEN None
         ELSE IF LooksBinary(ReadPrefix(file)) THEN None
         ELSE Some(ReadPrefix(file))
    ELSE None

\* whether lines 158-176 open the file at all
PreviewAttempted(path_str, file) ==
    LET extension == Lower(PathSuffix(path_str))
        mime_type == GuessType(path_str)
    IN  /\ ~(extension \in COMMON_BINARY_EXTENSIONS
             \/ (mime_type # None /\ ~TextLike(mime_type[1])))
        /\ file.size < 1024 * 1024

\* lines 175-176, "except Exception: pass": the read error is swallowed
HandleReadErrorReraise(exc) == exc

HandleReadError(exc) == None

\* _get_file_info(file_path) once stat() has succeeded.  extract: the parser's
\* _extract_video_metadata flag.  exc: the exception that leaves the function.
GetFileInfo(path_str, rel, file, read_ok, extract, clip) ==
    LET extension == Lower(PathSuffix(path_str))
        mime_type == GuessType(path_str)
        likely_binary == extension \in COMMON_BINARY_EXTENSIONS
                         \/ (mime_type # None /\ ~TextLike(mime_type[1]))
        file_info == FileInfo(path_str, file.size, extension, FileCTime(rel), FileMTime(rel),
                              ContentPreview(likely_binary, file, read_ok), mime_type)
        read_exc == IF ~likely_binary /\ file.size < 1024 * 1024 /\ ~read_ok
                    THEN HandleReadError(Some("OSError")) ELSE None
    IN  IF read_exc # None
        THEN [ info |-> file_info, probe |-> FALSE, exc |-> read_exc ]
        ELSE IF extract /\ extension \in COMMON_VIDEO_EXTENSIONS
        THEN ExtractVideoMetadata(file_info, file.size, clip)
        ELSE [ info |-> file_info, probe |-> FALSE, exc |-> None ]

(***************************************************************************)
(* Python float: an IEEE 754 binary64 number that is zero or positive.     *)
(*                                                                         *)
(* A natural number of any size is the sequence of its digits in base      *)
(* 2^10, lowest first, without high zeros.  A float is [m, e]: m its       *)
(* mantissa, a number of exactly 53 bits, and e the exponent of the lowest *)
(* bit; its value is m * 2^e.  Zero is the empty mantissa.  The integers   *)
(* that are divided are below 2^21.                                        *)
(***************************************************************************)
MANT_DIG == 53

Base == 2 ^ 10

FloatZero == [ m |-> << >>, e |-> 0 ]

\* what stands for a raised ZeroDivisionError where a float is expected
ZeroDivisionError == [ m |-> << 0 >>, e |-> 0 ]

RECURSIVE BigOf(_)
BigOf(n) == IF n = 0 THEN << >> ELSE << n % Base >> \o BigOf(n \div Base)

Zeros(n) == [ i \in 1..n |-> 0 ]

RECURSIVE BigNorm(_)
BigNorm(a) ==
    IF a = << >> THEN a
    ELSE IF a[Len(a)] = 0 THEN BigNorm(SubSeq(a, 1, Len(a) - 1))
    ELSE a

\* the carry into digit i of a + b
RECURSIVE AddCarry(_, _, _)
AddCarry(a, b, i) ==
    IF i = 1 THEN 0
    ELSE ((IF i - 1 <= Len(a) THEN a[i - 1] ELSE 0) + (IF i - 1 <= Len(b) THEN b[i - 1] ELSE 0)
          + AddCarry(a, b, i - 1)) \div Base

BigAdd(a, b) ==
    LET n == (IF Len(a) > Len(b) THEN Len(a) ELSE Len(b)) + 1
    IN  BigNorm([ i \in 1..n |->
                    ((IF i <= Len(a) THEN a[i] ELSE 0) + (IF i <= Len(b) THEN b[i] ELSE 0)
                     + AddCarry(a, b, i)) % Base ])

\* a times k, k below 2^21: the carry into digit i
RECURSIVE MulCarry(_, _, _)
MulCarry(a, k, i) ==
    IF i = 1 THEN 0
    ELSE ((IF i - 1 <= Len(a) THEN a[i - 1] ELSE 0) * k + MulCarry(a, k, i - 1)) \div Base

BigMulSmall(a, k) ==
    BigNorm([ i \in 1..(Len(a) + 3) |->
                ((IF i <= Len(a) THEN a[i] ELSE 0) * k + MulCarry(a, k, i)) % Base ])

RECURSIVE BigMul(_, _)
BigMul(a, b) ==
    IF a = << >> \/ b = << >> THEN << >>
    ELSE LET rest == BigMul(a, Tail(b))
         IN  BigAdd(BigMulSmall(a, Head(b)), IF rest = << >> THEN rest ELSE << 0 >> \o rest)

\* a <= b
RECURSIVE BigLe(_, _)
BigLe(a, b) ==
    IF Len(a) # Len(b) THEN Len(a) < Len(b)
    ELSE IF a = << >> THEN TRUE
    ELSE IF a[Len(a)] # b[Len(b)] THEN a[Len(a)] < b[Len(b)]
    ELSE BigLe(SubSeq(a, 1, Len(a) - 1), SubSeq(b, 1, Len(b) - 1))

\* the number of bits of a positive number
BitLen(a) ==
    10 * (Len(a) - 1) + (CHOOSE n \in 1..10 : 2 ^ (n - 1) <= a[Len(a)] /\ a[Len(a)] < 2 ^ n)

\* a * 2^k
ShiftLeft(a, k) ==
    IF a = << >> THEN a ELSE Zeros(k \div 10) \o BigMulSmall(a, 2 ^ (k % 10))

\* a \div 2^k
ShiftRight(a, k) ==
    LET b == SubSeq(a, (k \div 10) + 1, Len(a))
        r == k % 10
    IN  BigNorm([ i \in 1..Len(b) |->
                    (b[i] \div 2 ^ r)
                    + (IF i < Len(b) THEN (b[i + 1] % 2 ^ r) * 2 ^ (10 - r) ELSE 0) ])

\* a % 2^k # 0
LowBitsSet(a, k) ==
    \E j \in 1..Len(a) :
       \/ j <= k \div 10 /\ a[j] # 0
       \/ j = (k \div 10) + 1 /\ a[j] % 2 ^ (k % 10) # 0

\* a * 2^e (plus something below the lowest bit when sticky) rounded to the
\* nearest float, ties to even
RoundNearestEven(a, sticky, e) ==
    IF a = << >> THEN FloatZero
    ELSE LET k == BitLen(a) - MANT_DIG
         IN  IF k <= 0 THEN [ m |-> ShiftLeft(a, 0 - k), e |-> e + k ]
             ELSE LET kept == ShiftRight(a, k)
                      guard == LowBitsSet(ShiftRight(a, k - 1), 1)
                      below == sticky \/ LowBitsSet(a, k - 1)
                      up == guard /\ (below \/ kept[1] % 2 = 1)
                      rounded == IF up THEN BigAdd(kept, << 1 >>) ELSE kept
                  IN  IF BitLen(rounded) > MANT_DIG
                      THEN [ m |-> ShiftRight(rounded, 1), e |-> e + k + 1 ]
                      ELSE [ m |-> rounded, e |-> e + k ]

\* the long division r / d continued by digits more digits below quotient
RECURSIVE DivDigits(_, _, _, _)
DivDigits(r, d, quotient, digits) ==
    IF digits = 0 THEN [ quotient |-> BigNorm(quotient), sticky |-> r # 0 ]
    ELSE DivDigits((r * Base) % d, d, << (r * Base) \div d >> \o quotient, digits - 1)

\* int / int, the true division of two natural numbers, d positive
FloatDiv(n, d) ==
    LET q == DivDigits(n % d, d, BigOf(n \div d), 8)
    IN  RoundNearestEven(q.quotient, q.sticky, 0 - 80)

\* float * int
FloatMul(x, k) == RoundNearestEven(BigMulSmall(x.m, k), FALSE, x.e)

\* float + float
FloatAdd(x, y) ==
    IF x.m = << >> THEN y
    ELSE IF y.m = << >> THEN x
    ELSE LET e == IF x.e < y.e THEN x.e ELSE y.e
         IN  RoundNearestEven(BigAdd(ShiftLeft(x.m, x.e - e), ShiftLeft(y.m, y.e - e)),
                              FALSE, e)

\* x <= y
FloatLe(x, y) ==
    IF x.m = << >> THEN TRUE
    ELSE IF y.m = << >> THEN FALSE
    ELSE IF x.e # y.e THEN x.e < y.e
    ELSE BigLe(x.m, y.m)

(***************************************************************************)
(* insights.py: InsightGenerator                                           *)
(***************************************************************************)
RECURSIVE SumSizes(_)
SumSizes(fl) == IF fl = << >> THEN 0 ELSE Head(fl).size + SumSizes(Tail(fl))

\* min(files, key=created_time) and max(...): the first of the equal ones
RECURSIVE MinByCreated(_)
MinByCreated(fl) ==
    IF Len(fl) = 1 THEN fl[1]
    ELSE LET rest == MinByCreated(SubSeq(fl, 1, Len(fl) - 1))
         IN  IF fl[Len(fl)].created_time < rest.created_time THEN fl[Len(fl)] ELSE rest

\* line 199 with the last of the equal ones
RECURSIVE MaxByCreatedLast(_)
MaxByCreatedLast(fl) ==
    IF Len(fl) = 1 THEN fl[1]
    ELSE LET rest == MaxByCreatedLast(SubSeq(fl, 1, Len(fl) - 1))
         IN  IF fl[Len(fl)].created_time >= rest.created_time THEN fl[Len(fl)] ELSE rest

RECURSIVE MaxByCreated(_)
MaxByCreated(fl) ==
    IF Len(fl) = 1 THEN fl[1]
    ELSE LET rest == MaxByCreated(SubSeq(fl, 1, Len(fl) - 1))
         IN  IF fl[Len(fl)].created_time > rest.created_time THEN fl[Len(fl)] ELSE rest

\* f"{name} ({created_time:%Y-%m-%d})": the name and the day
FileLabel(f) == << name(f), f.created_time \div 86400 >>

\* line 195 with // for /
AverageSizeFloor(total_size, total_files) == FloatDiv(total_size \div total_files, 1)

\* line 195: total_size / total_files, total_files positive
AverageSize(total_size, total_files) == FloatDiv(total_size, total_files)

\* line 202 with the files for their parents
ParentDirectoriesAsPaths(fl) == { fl[k].path : k \in 1..Len(fl) }

\* line 202: {f.path.parent for f in self.files}
ParentDirectories(fl) == { PathParent(fl[k].path) : k \in 1..Len(fl) }

\* InsightGenerator._general_statistics
GeneralStatistics(fl) ==
    IF Len(fl) = 0
    THEN [ total_files |-> 0, total_size |-> 0, average_size |-> FloatZero,
           oldest_file |-> << "N/A" >>, newest_file |-> << "N/A" >>,
           total_directories |-> 0 ]
    ELSE [ total_files |-> Len(fl), total_size |-> SumSizes(fl),
           average_size |-> AverageSize(SumSizes(fl), Len(fl)),
           oldest_file |-> FileLabel(MinByCreated(fl)),
           newest_file |-> FileLabel(MaxByCreated(fl)),
           total_directories |-> Cardinality(ParentDirectories(fl)) ]

\* the keys of extension_groups when a file without extension is not grouped
RECURSIVE ExtensionOrderSkipEmpty(_)
ExtensionOrderSkipEmpty(fl) ==
    IF fl = << >> THEN << >>
    ELSE LET before == ExtensionOrderSkipEmpty(SubSeq(fl, 1, Len(fl) - 1))
             ext == fl[Len(fl)].extension
         IN  IF ext = "" \/ \E k \in 1..Len(before) : before[k] = ext THEN before
             ELSE Append(before, ext)

\* the keys of extension_groups, in insertion order
RECURSIVE ExtensionOrder(_)
ExtensionOrder(fl) ==
    IF fl = << >> THEN << >>
    ELSE LET before == ExtensionOrder(SubSeq(fl, 1, Len(fl) - 1))
             ext == fl[Len(fl)].extension
         IN  IF \E k \in 1..Len(before) : before[k] = ext THEN before
             ELSE Append(before, ext)

\* extension_groups[ext]
ExtensionGroup(fl, ext) == SelectSeq(fl, LAMBDA f : f.extension = ext)

\* the sort key of line 228
GroupSortKeyBySize(group) == SumSizes(group)

GroupSortKey(group) == Len(group)

\* sorted(groups, key=..., reverse=True): stable, the larger key first
RECURSIVE SortGroups(_, _)
SortGroups(fl, exts) ==
    IF exts = << >> THEN << >>
    ELSE LET sorted == SortGroups(fl, SubSeq(exts, 1, Len(exts) - 1))
             e == exts[Len(exts)]
             key == GroupSortKey(ExtensionGroup(fl, e))
             \* e goes after every entry whose key is at least its own
             pos == Cardinality({ k \in 1..Len(sorted) :
                        GroupSortKey(ExtensionGroup(fl, sorted[k])) >= key })
         IN  SubSeq(sorted, 1, pos) \o << e >> \o SubSeq(sorted, pos + 1, Len(sorted))

\* line 230 without its guard
PercentageUnguarded(ext_size, total_size) ==
    IF total_size = 0 THEN ZeroDivisionError
    ELSE FloatMul(FloatDiv(ext_size, total_size), 100)

\* line 230: (ext_size / total_size) * 100 if total_size > 0 else 0
Percentage(ext_size, total_size) ==
    IF total_size > 0 THEN FloatMul(FloatDiv(ext_size, total_size), 100) ELSE FloatZero

\* InsightGenerator._file_type_statistics
FileTypeStatistics(fl) ==
    IF fl = << >> THEN << >>
    ELSE LET order == SortGroups(fl, ExtensionOrder(fl))
             total_size == SumSizes(fl)
         IN  [ k \in 1..Len(order) |->
                 LET group == ExtensionGroup(fl, order[k])
                 IN  [ extension |-> order[k], count |-> Len(group),
                       size |-> SumSizes(group),
                       percentage |-> Percentage(SumSizes(group), total_size) ] ]

\* the bucket of one age with the chain cut after "Last year"
AgeBucketFive(age) ==
    IF age < 86400 THEN "Last 24 hours"
    ELSE IF age < 604800 THEN "Last week"
    ELSE IF age < 2592000 THEN "Last month"
    ELSE IF age < 31536000 THEN "Last year"
    ELSE "Older"

\* the bucket of one age, lines 262-275
AgeBucket(age) ==
    IF age < 86400 THEN "Last 24 hours"
    ELSE IF age < 604800 THEN "Last week"
    ELSE IF age < 2592000 THEN "Last month"
    ELSE IF age < 31536000 THEN "Last year"
    ELSE IF age < 94672800 THEN "Last 3 years"
    ELSE IF age < 315360000 THEN "Last 10 years"
    ELSE "Older"

\* _age_distribution without the final else: the oldest records are not counted
AgeDistributionNoElse(fl, clock) ==
    LET used == { AgeBucket(clock - fl[k].created_time) : k \in 1..Len(fl) } \ { "Older" }
    IN  [ b \in used |->
            Cardinality({ k \in 1..Len(fl) : AgeBucket(clock - fl[k].created_time) = b }) ]

\* InsightGenerator._age_distribution, with clock what datetime.now() answers
AgeDistribution(fl, clock) ==
    LET used == { AgeBucket(clock - fl[k].created_time) : k \in 1..Len(fl) }
    IN  [ b \in used |->
            Cardinality({ k \in 1..Len(fl) : AgeBucket(clock - fl[k].created_time) = b }) ]

\* whether the string ends with the suffix
EndsWith(s, suffix) ==
    Len(s) >= Len(suffix) /\ SubSeq(s, Len(s) - Len(suffix) + 1, Len(s)) = suffix

\* the index of the first "/" of the string, 0 when it has none
RECURSIVE FindSlash(_)
FindSlash(s) ==
    IF s = "" THEN 0
    ELSE IF Head(s) = "/" THEN 1
    ELSE LET i == FindSlash(Tail(s)) IN IF i = 0 THEN 0 ELSE i + 1

\* the segments of a relative path
RECURSIVE RelativeParts(_)
RelativeParts(s) ==
    IF s = "" THEN << >>
    ELSE LET i == FindSlash(s)
         IN  IF i = 0 THEN << s >>
             ELSE IF i = 1 THEN RelativeParts(Tail(s))
             ELSE << SubSeq(s, 1, i - 1) >> \o RelativeParts(SubSeq(s, i + 1, Len(s)))

\* Path.parts: the root "/" is a part of its own
PathParts(p) ==
    IF StartsWith(p, "/") THEN << "/" >> \o RelativeParts(p) ELSE RelativeParts(p)

\* {}
EmptyDict == [ k \in {} |-> k ]

\* lines 299-314: the leaf of one file
FileData(f) ==
    IF is_video(f) /\ has_video_metadata(f)
    THEN [ size |-> f.size, extension |-> f.extension, is_video |-> is_video(f),
           has_video_metadata |-> TRUE, video_duration |-> f.video_duration,
           video_resolution |-> f.video_resolution, video_fps |-> f.video_fps,
           video_codec |-> f.video_codec, audio_codec |-> f.audio_codec ]
    ELSE [ size |-> f.size, extension |-> f.extension, is_video |-> is_video(f) ]

\* lines 292-297 and 316 without the test of line 294: every directory part
\* is created anew
RECURSIVE TreeInsertReset(_, _, _)
TreeInsertReset(tree, keys, file_data) ==
    IF Len(keys) = 1 THEN (keys[1] :> file_data) @@ tree
    ELSE (keys[1] :> TreeInsertReset(EmptyDict, Tail(keys), file_data)) @@ tree

\* lines 292-297 and 316: walk down the directory parts, creating the missing
\* ones, and set the last key
RECURSIVE TreeInsert(_, _, _)
TreeInsert(tree, keys, file_data) ==
    IF Len(keys) = 1 THEN (keys[1] :> file_data) @@ tree
    ELSE LET current == IF keys[1] \in DOMAIN tree THEN tree[keys[1]] ELSE EmptyDict
         IN  (keys[1] :> TreeInsert(current, Tail(keys), file_data)) @@ tree

\* lines 285-290 with start_idx left at 0
TreeKeysKeepRoot(path_str) == PathParts(path_str)

\* lines 285-290: the keys of one file, the first part skipped when it is a
\* drive letter or the root
TreeKeys(path_str) ==
    LET parts == PathParts(path_str)
    IN  IF parts # << >> /\ (EndsWith(parts[1], ":\\") \/ parts[1] = "/")
        THEN Tail(parts) ELSE parts

\* InsightGenerator._build_file_tree
RECURSIVE BuildFileTree(_)
BuildFileTree(fl) ==
    IF fl = << >> THEN EmptyDict
    ELSE TreeInsert(BuildFileTree(SubSeq(fl, 1, Len(fl) - 1)),
                    TreeKeys(fl[Len(fl)].path), FileData(fl[Len(fl)]))

(***************************************************************************)
(* video.py: generate_video_statistics                                     *)
(***************************************************************************)
\* f"{width}x{height}"
ResolutionLabel(resolution) == ToString(resolution[1]) \o "x" \o ToString(resolution[2])

RECURSIVE SumDurations(_)
SumDurations(vl) ==
    IF vl = << >> THEN 0
    ELSE (IF Head(vl).video_duration # None THEN Head(vl).video_duration[1] ELSE 0)
         + SumDurations(Tail(vl))

\* lines 144 and 156-167: the Counter of the resolutions, as a mapping
ResolutionCounts(vl) ==
    LET counted == { k \in 1..Len(vl) : vl[k].video_resolution # None }
        labels == { ResolutionLabel(vl[k].video_resolution[1]) : k \in counted }
    IN  [ l \in labels |->
            Cardinality({ k \in counted : ResolutionLabel(vl[k].video_resolution[1]) = l }) ]

\* lines 147 and 169-172: the Counter of the video codecs, as a mapping
CodecCounts(vl) ==
    LET counted == { k \in 1..Len(vl) : vl[k].video_codec # None /\ vl[k].video_codec # Some("") }
        labels == { vl[k].video_codec[1] : k \in counted }
    IN  [ l \in labels |-> Cardinality({ k \in counted : vl[k].video_codec[1] = l }) ]

GenerateVideoStatistics(video_files) ==
    LET with_metadata == SelectSeq(video_files, has_video_metadata)
        total_duration == SumDurations(with_metadata)
    IN  [ total_videos |-> Len(video_files),
          videos_with_metadata |-> Len(with_metadata),
          total_duration |-> total_duration,
          average_duration |-> IF with_metadata # << >>
                               THEN FloatDiv(total_duration, Len(with_metadata))
                               ELSE FloatZero,
          resolution_counts |-> ResolutionCounts(with_metadata),
          codec_counts |-> CodecCounts(with_metadata) ]

(***************************************************************************)
(* insights.py: generate_insights and Insights.save                        *)
(***************************************************************************)
\* InsightGenerator.generate_insights: Insights.data
GenerateInsightsData(fl, clock) ==
    LET data == [ general_stats |-> GeneralStatistics(fl),
                  file_types |-> FileTypeStatistics(fl),
                  age_distribution |-> AgeDistribution(fl, clock),
                  file_tree |-> BuildFileTree(fl) ]
        video_files == SelectSeq(fl, is_video)
    IN  IF video_files # << >>
        THEN ("video_stats" :> GenerateVideoStatistics(video_files)) @@ data
        ELSE data

\* the two JSON values a pair is written as: an array, or a string
JsonArray(items) == [ json |-> "array", items |-> items ]
JsonString(text) == [ json |-> "string", text |-> text ]

\* serialize_data, lines 135-145, on a pair: the hook json.dumps calls for the
\* values it has no encoding of its own for
SerializeData(obj) == JsonString(ToString(obj[1]) \o "x" \o ToString(obj[2]))

\* json.dumps on a tuple: json encodes a tuple as an array and does not call
\* the default hook
JsonOfTuple(obj) == JsonArray(obj)

\* the keys of a leaf of the file tree; every other key is a directory or a file
FileDataKeys ==
    { "size", "extension", "is_video", "has_video_metadata", "video_duration",
      "video_resolution", "video_fps", "video_codec", "audio_codec" }

\* json.loads(json.dumps(file_tree, default=serialize_data))
RECURSIVE JsonOfTree(_)
JsonOfTree(node) ==
    [ k \in DOMAIN node |->
        IF k = "video_resolution"
        THEN (IF node[k] = None THEN None ELSE Some(JsonOfTuple(node[k][1])))
        ELSE IF k \in FileDataKeys THEN node[k]
        ELSE JsonOfTree(node[k]) ]

\* Insights.save, lines 147-150: what json.load reads back from the file.  The
\* numbers, strings, booleans, None, lists and dicts of Insights.data are
\* written and read back as they are.
SaveJson(data) == [ data EXCEPT !.file_tree = JsonOfTree(@) ]

(***************************************************************************)
(* Bounds and the inputs that are enumerated                               *)
(***************************************************************************)
MaxFaults == 1
MaxAggFiles == 3
MaxStoreFiles == 3

Directories == { ".", "r" }

ExcludeChoices == { << >>, << "**/.git/**" >>, << "*.txt", "*sub" >> }

TextFile(n) == [ size |-> n, nuls |-> 0, ctrl |-> 0 ]

\* a file of three characters, one of them a null character
NulFile == [ size |-> 3, nuls |-> 1, ctrl |-> 0 ]

FsChoices ==
    { f \in [ AllFiles -> { TextFile(3), TextFile(10),
                            TextFile(MIN_VIDEO_SIZE - 1), TextFile(MIN_VIDEO_SIZE) } ] :
        /\ f["a.txt"] = TextFile(3)
        /\ f[".git/config"] = TextFile(10)
        /\ f["sub/b.py"] = TextFile(3)
        /\ f["sub/V.MP4"] \in { TextFile(MIN_VIDEO_SIZE - 1), TextFile(MIN_VIDEO_SIZE) } }

\* the state of a store_file_infos that is not running
StoreIdle ==
    /\ st_pc = "idle" /\ st_infos = << >> /\ st_i = 0 /\ st_count = 0
    /\ st_errors = << >> /\ st_attempted = {} /\ st_commit = FALSE
    /\ st_files_rows = << >> /\ st_video_rows = << >> /\ st_return = None
    /\ st_retrieved = None /\ st_table = << >> /\ st_aborted = FALSE
    /\ st_deleted = None

\* the state of a scan command before its first step
ScanFresh ==
    /\ paths_to_process = << >> /\ idx = 0 /\ result = << >> /\ files = << >>
    /\ stat_failed = {} /\ read_failed = {} /\ probed = {} /\ probe_failed = {}
    /\ enrich_error = {} /\ faults = 0 /\ db_error = None /\ saved_count = None
    /\ insights = None /\ displayed = FALSE /\ written = FALSE /\ report = None /\ exit_code = None

Init ==
    /\ directory \in Directories
    /\ rootIsDir \in BOOLEAN
    /\ recursive \in BOOLEAN
    /\ exclude \in ExcludeChoices
    /\ video_metadata \in BOOLEAN
    /\ db_save \in BOOLEAN
    /\ db_connection \in { "none", "bad", "ok" }
    /\ db_available \in BOOLEAN
    /\ verbose \in BOOLEAN
    /\ output \in BOOLEAN
    /\ fs \in FsChoices
    /\ now = 90000
    \* options that change no step of this run are left at their defaults:
    \* --verbose adds the verification queries after a store, and prints
    /\ (~db_save => db_connection = "none" /\ db_available /\ ~verbose)
    /\ (~db_available => db_connection = "none" /\ ~verbose)
    /\ (~video_metadata => ~verbose)
    /\ (db_connection # "ok" => ~verbose)
    /\ (~rootIsDir => fs["a.txt"] = TextFile(3) /\ fs["sub/V.MP4"] = TextFile(MIN_VIDEO_SIZE))
    /\ pc = "start"
    /\ ScanFresh
    /\ StoreIdle

(***************************************************************************)
(* main.py: the scan command                                               *)
(***************************************************************************)
\* main.py line 108 and FileParser.__init__: the parser's exclude_patterns
ParserExcludePatterns(cli_exclude) == cli_exclude

\* main.py lines 215-221: the exception is printed and scan returns 1
ScanFails ==
    /\ pc' = "failed"
    /\ exit_code' = Some(1)

\* parse_directory lines 87-88: whether the directory check lets the scan go on
IsDirCheckSkipped(is_dir) == TRUE

IsDirCheck(is_dir) == is_dir

\* parse_directory lines 87-96: the directory check and the enumeration
ParseBegin ==
    /\ pc = "start"
    /\ IF ~IsDirCheck(rootIsDir)
       THEN /\ ScanFails
            /\ UNCHANGED <<paths_to_process, idx>>
       ELSE /\ \E listing \in Listings :
                 paths_to_process' =
                    IF recursive
                    THEN WalkDirectory(ParserExcludePatterns(exclude), directory, listing)
                    ELSE IterdirFiles(directory, listing)
            /\ idx' = 1
            /\ pc' = "scanning"
            /\ UNCHANGED exit_code
    /\ UNCHANGED <<result, files, stat_failed, read_failed, probed, probe_failed,
                   enrich_error, faults, db_error, saved_count, insights, displayed, written, report>>
    /\ UNCHANGED <<scanInputs, storeVars>>

\* whether something raises while the record of one file is built: stat(),
\* the read of the preview, or a statement inside extract_video_metadata
Faulty(stat_ok, read_ok, enriched, file_size, clip) ==
    ~stat_ok \/ ~read_ok \/ (enriched /\ ExceptionInside(file_size, clip))

\* parse_directory lines 99-104: one iteration of the loop over the paths.  At
\* most MaxFaults files of a scan raise.
ProcessFile ==
    /\ pc = "scanning"
    /\ idx <= Len(paths_to_process)
    /\ LET file_path == paths_to_process[idx]
           rel == RelOf(directory, file_path)
           is_vid == Lower(PathSuffix(file_path)) \in COMMON_VIDEO_EXTENSIONS
       IN  IF ShouldExclude(ParserExcludePatterns(exclude), file_path)
           THEN /\ idx' = idx + 1
                /\ UNCHANGED <<pc, result, stat_failed, read_failed, probed, probe_failed,
                               enrich_error, faults, exit_code>>
           ELSE \E stat_ok \in BOOLEAN, read_ok \in BOOLEAN, clip \in Clips :
                  /\ Faulty(stat_ok, read_ok, video_metadata /\ is_vid, fs[rel].size, clip)
                        => faults < MaxFaults
                  /\ ~stat_ok => read_ok /\ clip = ClipOK
                  /\ ~read_ok => PreviewAttempted(file_path, fs[rel])
                  /\ ~(video_metadata /\ is_vid) => clip = ClipOK
                  /\ faults' = IF Faulty(stat_ok, read_ok, video_metadata /\ is_vid,
                                          fs[rel].size, clip)
                                THEN faults + 1 ELSE faults
                  /\ IF ~stat_ok
                     THEN \* line 132: stat() raises, nothing catches it before scan
                          /\ stat_failed' = stat_failed \cup { file_path }
                          /\ ScanFails
                          /\ UNCHANGED <<idx, result, read_failed, probed, probe_failed,
                                         enrich_error>>
                     ELSE LET r == GetFileInfo(file_path, rel, fs[rel], read_ok,
                                               video_metadata, clip)
                              enriched == video_metadata /\ is_vid
                          IN  /\ read_failed' = IF read_ok THEN read_failed
                                                ELSE read_failed \cup { file_path }
                              /\ probed' = IF r.probe THEN probed \cup { file_path }
                                           ELSE probed
                              /\ probe_failed' =
                                    IF enriched /\ ProbeFailure(fs[rel].size, clip)
                                    THEN probe_failed \cup { file_path } ELSE probe_failed
                              /\ enrich_error' =
                                    IF enriched /\ ExceptionInside(fs[rel].size, clip)
                                    THEN enrich_error \cup { file_path } ELSE enrich_error
                              /\ UNCHANGED stat_failed
                              /\ IF r.exc # None
                                 THEN /\ ScanFails
                                      /\ UNCHANGED <<idx, result>>
                                 ELSE /\ result' = Append(result, r.info)
                                      /\ idx' = idx + 1
                                      /\ UNCHANGED <<pc, exit_code>>
    /\ UNCHANGED <<paths_to_process, files, db_error, saved_count, insights, displayed, written, report>>
    /\ UNCHANGED <<scanInputs, storeVars>>

\* parse_directory line 106 and main.py lines 117-137
ParseEnd ==
    /\ pc = "scanning"
    /\ idx > Len(paths_to_process)
    /\ files' = result
    /\ pc' = IF db_save THEN "db" ELSE "insights"
    /\ UNCHANGED <<paths_to_process, idx, result, stat_failed, read_failed, probed,
                   probe_failed, enrich_error, faults, db_error, saved_count, insights,
                   displayed, written, report, exit_code>>
    /\ UNCHANGED <<scanInputs, storeVars>>

\* where scan goes on after the handler of lines 197-199 has printed the error
AfterDatabaseErrorAbort == "failed"

AfterDatabaseError == "insights"

\* main.py lines 197-199: "Database error", then "Continuing with insights generation"
DatabaseError(stage) ==
    /\ db_error' = Some(stage)
    /\ pc' = AfterDatabaseError
    /\ UNCHANGED saved_count

dbFrame ==
    /\ UNCHANGED <<paths_to_process, idx, result, files, stat_failed, read_failed, probed,
                   probe_failed, enrich_error, faults, insights, displayed, written, report,
                   exit_code>>
    /\ UNCHANGED <<scanInputs, storeVars>>

\* main.py lines 138-142: psycopg could not be imported
DbUnavailable ==
    /\ pc = "db"
    /\ ~db_available
    /\ db_error' = Some("unavailable")
    /\ pc' = "insights"
    /\ UNCHANGED saved_count
    /\ dbFrame

\* main.py line 146 and DatabaseManager.__init__
DbConstruct ==
    /\ pc = "db"
    /\ db_available
    /\ IF db_connection = "none"
       THEN DatabaseError("construct")
       ELSE pc' = "db_test" /\ UNCHANGED <<db_error, saved_count>>
    /\ dbFrame

\* main.py lines 149-150 and DatabaseManager.test_connection
DbTestConnection ==
    /\ pc = "db_test"
    /\ \E ok \in BOOLEAN :
         /\ db_connection = "bad" => ~ok
         /\ IF ok THEN pc' = "db_init" /\ UNCHANGED <<db_error, saved_count>>
            ELSE DatabaseError("connect")
    /\ dbFrame

\* main.py lines 152-157 and DatabaseManager.initialize_database
DbInitialize ==
    /\ pc = "db_init"
    /\ \E ok \in BOOLEAN :
         IF ok THEN pc' = "db_store" /\ UNCHANGED <<db_error, saved_count>>
         ELSE DatabaseError("initialize")
    /\ dbFrame

\* main.py lines 159-167: store_file_infos returns a count or raises
DbStore ==
    /\ pc = "db_store"
    /\ \/ \E n \in 0..Len(files) :
            /\ saved_count' = Some(n)
            /\ pc' = IF verbose /\ video_metadata THEN "db_verify" ELSE "insights"
            /\ UNCHANGED db_error
       \/ DatabaseError("store")
    /\ dbFrame

\* main.py lines 169-195: the verification queries
DbVerify ==
    /\ pc = "db_verify"
    /\ \E ok \in BOOLEAN :
         IF ok THEN pc' = "insights" /\ UNCHANGED <<db_error, saved_count>>
         ELSE DatabaseError("verify")
    /\ dbFrame

\* main.py lines 201-204
GenerateInsights ==
    /\ pc = "insights"
    /\ insights' = Some(GenerateInsightsData(files, now))
    /\ pc' = "display"
    /\ UNCHANGED <<paths_to_process, idx, result, files, stat_failed, read_failed, probed,
                   probe_failed, enrich_error, faults, db_error, saved_count, displayed,
                   written, report, exit_code>>
    /\ UNCHANGED <<scanInputs, storeVars>>

\* main.py lines 206-207, and line 214 when no output was asked for
Display ==
    /\ pc = "display"
    /\ displayed' = TRUE
    /\ IF output THEN pc' = "save" /\ UNCHANGED exit_code
       ELSE pc' = "done" /\ exit_code' = Some(0)
    /\ UNCHANGED <<paths_to_process, idx, result, files, stat_failed, read_failed, probed,
                   probe_failed, enrich_error, faults, db_error, saved_count, insights,
                   written, report>>
    /\ UNCHANGED <<scanInputs, storeVars>>

\* main.py lines 209-214 and Insights.save: the report is written and scan
\* returns 0; when the output file cannot be opened, save raises from its
\* fallback too and the handler of lines 215-221 returns 1
SaveOutput ==
    /\ pc = "save"
    /\ \E writable \in BOOLEAN :
         IF writable
         THEN /\ written' = TRUE
              /\ report' = Some(SaveJson(insights[1]))
              /\ pc' = "done"
              /\ exit_code' = Some(0)
         ELSE /\ ScanFails
              /\ UNCHANGED <<written, report>>
    /\ UNCHANGED <<paths_to_process, idx, result, files, stat_failed, read_failed, probed,
                   probe_failed, enrich_error, faults, db_error, saved_count, insights,
                   displayed>>
    /\ UNCHANGED <<scanInputs, storeVars>>

Next ==
    \/ ParseBegin \/ ProcessFile \/ ParseEnd
    \/ DbUnavailable \/ DbConstruct \/ DbTestConnection \/ DbInitialize \/ DbStore \/ DbVerify
    \/ GenerateInsights \/ Display \/ SaveOutput

Spec == Init /\ [][Next]_vars

(***************************************************************************)
(* database.py: DatabaseManager.store_file_infos                           *)
(***************************************************************************)
\* a record with the given name, size and duration, as the scan builds it
StoredFile(path_str, size, duration) ==
    [ FileInfo(path_str, size, Lower(PathSuffix(path_str)), 100, 101, None,
               GuessType(path_str))
      EXCEPT !.video_duration = duration ]

StoreRecords ==
    { StoredFile("/t/a.txt", 3, None),
      StoredFile("/t/v.mp4", MIN_VIDEO_SIZE - 1, None),
      StoredFile("/t/w.mp4", MIN_VIDEO_SIZE, Some(5)) }

RECURSIVE SeqsUpTo(_, _)
SeqsUpTo(S, n) ==
    IF n = 0 THEN { << >> }
    ELSE LET shorter == SeqsUpTo(S, n - 1)
         IN  shorter \cup { Append(q, x) : q \in shorter, x \in S }

\* _sanitize_text, on a text without null characters: a long text is cut
SanitizeText(text) ==
    IF Len(text) > 10000 THEN SubSeq(text, 1, 10000) \o "... (truncated)" ELSE text

\* _prepare_for_db on an optional text: None stays None
PrepareForDb(value) ==
    IF value = None THEN None ELSE Some(SanitizeText(value[1]))

\* lines 212-218: the duration column of the files row, 0.0 for a record
\* that is no video or has no duration
StoreDuration(file_info) ==
    IF is_video(file_info) /\ file_info.video_duration # None
    THEN file_info.video_duration[1] ELSE 0

\* lines 207-237: the row inserted into files
FilesRow(file_info) ==
    [ path |-> SanitizeText(file_info.path), size |-> file_info.size,
      extension |-> SanitizeText(file_info.extension),
      created_time |-> file_info.created_time, modified_time |-> file_info.modified_time,
      mime_type |-> PrepareForDb(file_info.mime_type),
      duration |-> StoreDuration(file_info) ]

\* lines 244-283: the row inserted into video_metadata, as the query of
\* lines 323-334 names its columns; both codecs pass through _prepare_for_db
VideoMetadataRow(file_info) ==
    [ video_duration |-> Some(StoreDuration(file_info)),
      resolution_width |-> IF file_info.video_resolution # None
                           THEN Some(file_info.video_resolution[1][1]) ELSE None,
      resolution_height |-> IF file_info.video_resolution # None
                            THEN Some(file_info.video_resolution[1][2]) ELSE None,
      video_fps |-> file_info.video_fps,
      video_codec |-> PrepareForDb(file_info.video_codec),
      audio_codec |-> PrepareForDb(file_info.audio_codec) ]

\* the columns of video_metadata of a files row that the LEFT JOIN pairs with
\* no row
NoVideoMetadataRow ==
    [ video_duration |-> None, resolution_width |-> None, resolution_height |-> None,
      video_fps |-> None, video_codec |-> None, audio_codec |-> None ]

\* the tables are persistent: what an earlier scan left in them, here nothing
\* or the row of one text file
EarlierTables ==
    { << >>,
      << [ f |-> FilesRow(StoredFile("/t/old.txt", 7, None)), v |-> NoVideoMetadataRow,
           is_video |-> FALSE ] >> }

InitStore ==
    /\ directory = "." /\ rootIsDir = TRUE /\ recursive = TRUE /\ exclude = << >>
    /\ video_metadata = FALSE /\ db_save = TRUE /\ db_connection = "ok"
    /\ db_available = TRUE /\ verbose = FALSE /\ output = FALSE
    /\ fs \in { f \in FsChoices : f["a.txt"] = TextFile(3)
                                  /\ f["sub/V.MP4"] = TextFile(MIN_VIDEO_SIZE) }
    /\ now = 90000
    /\ pc = "db_init"
    /\ ScanFresh
    /\ st_pc = "init"
    /\ st_infos \in SeqsUpTo(StoreRecords, MaxStoreFiles)
    /\ st_i = 0 /\ st_count = 0 /\ st_errors = << >> /\ st_attempted = {}
    /\ st_commit = FALSE /\ st_files_rows = << >> /\ st_video_rows = << >>
    /\ st_return = None /\ st_retrieved = None
    /\ st_table \in EarlierTables /\ st_aborted = FALSE /\ st_deleted = None

\* initialize_database(rebuild), lines 82-143: with rebuild both tables are
\* dropped and created empty, without it they keep their rows; any statement
\* may raise
InitializeDatabase ==
    /\ st_pc = "init"
    /\ \E ok \in BOOLEAN, rebuild \in BOOLEAN :
         IF ok
         THEN /\ st_table' = IF rebuild THEN << >> ELSE st_table
              /\ st_pc' = "start"
         ELSE st_pc' = "init_raised" /\ UNCHANGED st_table
    /\ UNCHANGED <<st_infos, st_i, st_count, st_errors, st_attempted, st_commit, st_files_rows,
                   st_video_rows, st_return, st_retrieved, st_aborted, st_deleted>>
    /\ UNCHANGED <<scanInputs, scanState>>

\* lines 194-203: the empty batch returns 0; otherwise the connection is opened
StoreBegin ==
    /\ st_pc = "start"
    /\ IF st_infos = << >>
       THEN /\ st_return' = Some(0)
            /\ st_pc' = "returned"
            /\ UNCHANGED st_i
       ELSE \E connected \in BOOLEAN :
              /\ st_pc' = IF connected THEN "loop" ELSE "raised"
              /\ st_i' = IF connected THEN 1 ELSE 0
              /\ UNCHANGED st_return
    /\ UNCHANGED <<st_infos, st_count, st_errors, st_attempted, st_commit, st_files_rows,
                   st_video_rows, st_retrieved, st_table, st_aborted, st_deleted>>
    /\ UNCHANGED <<scanInputs, scanState>>

\* the index the loop goes on with after the handler of lines 289-291
NextRecordAfterErrorAbort(i, n) == n + 1

NextRecordAfterError(i, n) == i + 1

\* lines 204-291: one iteration of the loop over file_infos.  The INSERT into
\* files, or the INSERT into video_metadata, may raise.  An error the server
\* reports aborts the transaction: every later statement of the batch raises
\* too.  An error raised before the statement reaches the server leaves the
\* transaction open.
StoreRecord ==
    /\ st_pc = "loop"
    /\ st_i <= Len(st_infos)
    /\ LET file_info == st_infos[st_i]
           with_video == is_video(file_info) /\ file_info.video_duration # None
       IN  \E outcome \in { "ok", "files_error", "video_error" }, server_side \in BOOLEAN :
             /\ outcome = "video_error" => with_video
             /\ st_aborted => outcome = "files_error" /\ server_side
             /\ outcome = "ok" => ~server_side
             /\ st_aborted' = (st_aborted \/ server_side)
             /\ st_attempted' = st_attempted \cup { st_i }
             /\ IF outcome = "files_error"
                THEN /\ st_errors' = Append(st_errors, st_i)
                     /\ st_i' = NextRecordAfterError(st_i, Len(st_infos))
                     /\ UNCHANGED <<st_count, st_files_rows, st_video_rows>>
                ELSE /\ st_files_rows' = Append(st_files_rows, st_i)
                     /\ st_count' = st_count + 1
                     /\ IF outcome = "video_error"
                        THEN /\ st_errors' = Append(st_errors, st_i)
                             /\ st_i' = NextRecordAfterError(st_i, Len(st_infos))
                             /\ UNCHANGED st_video_rows
                        ELSE /\ st_video_rows' = IF with_video
                                                 THEN Append(st_video_rows, st_i)
                                                 ELSE st_video_rows
                             /\ st_i' = st_i + 1
                             /\ UNCHANGED st_errors
    /\ UNCHANGED <<st_pc, st_infos, st_commit, st_return, st_retrieved, st_table, st_deleted>>
    /\ UNCHANGED <<scanInputs, scanState>>

\* lines 293-303 inside the connection block of line 202: conn.commit(), then
\* the block closes the connection and the count is returned.
\*   "ok"            the commit and the closing succeed;
\*   "commit_raised" conn.commit() raises: the exception leaves the connection
\*                   block, whose exit rolls the transaction back, and lines
\*                   294-298 raise: no row of the batch stays;
\*   "close_raised"  the commit succeeded and the closing of the connection
\*                   raises: lines 294-298 raise, the rows stay.
\* The commit of an aborted transaction rolls it back without raising: none
\* of the rows of the batch stays.
StoreCommit ==
    /\ st_pc = "loop"
    /\ st_i > Len(st_infos)
    /\ st_commit' = TRUE
    /\ \E outcome \in { "ok", "commit_raised", "close_raised" } :
         /\ IF outcome = "ok"
            THEN st_return' = Some(st_count) /\ st_pc' = "returned"
            ELSE st_pc' = "raised" /\ UNCHANGED st_return
         /\ IF st_aborted \/ outcome = "commit_raised"
            THEN st_files_rows' = << >> /\ st_video_rows' = << >>
            ELSE UNCHANGED <<st_files_rows, st_video_rows>>
    /\ UNCHANGED <<st_infos, st_i, st_count, st_errors, st_attempted, st_retrieved,
                   st_table, st_aborted, st_deleted>>
    /\ UNCHANGED <<scanInputs, scanState>>

(***************************************************************************)
(* database.py: DatabaseManager.retrieve_file_infos, delete_all_files      *)
(***************************************************************************)
\* the order of characters in path strings; the paths stored here differ in
\* one lower-case letter, which every collation of the server orders alike
CharOrder == "./0123456789:ABCDEFGHIJKLMNOPQRSTUVWXYZ\\_abcdefghijklmnopqrstuvwxyz"

CharRank(c) == CHOOSE k \in 1..Len(CharOrder) : SubSeq(CharOrder, k, k) = c

\* a < b as strings
RECURSIVE TextLess(_, _)
TextLess(a, b) ==
    IF b = "" THEN FALSE
    ELSE IF a = "" THEN TRUE
    ELSE IF Head(a) = Head(b) THEN TextLess(Tail(a), Tail(b))
    ELSE CharRank(SubSeq(a, 1, 1)) < CharRank(SubSeq(b, 1, 1))

\* ORDER BY f.path: every order of the rows in which no path comes before a
\* smaller one; the order of rows of one path is the server's
OrderByPath(rows) ==
    { ordered \in { [ k \in 1..Len(rows) |-> rows[p[k]] ] : p \in Permutations(1..Len(rows)) } :
        \A k \in 1..(Len(ordered) - 1) : ~TextLess(ordered[k + 1].f.path, ordered[k].f.path) }

\* lines 350-376: the FileInfo built from one row of the query
RowToFileInfo(row) ==
    LET video_resolution ==
            IF row.v.resolution_width # None /\ row.v.resolution_height # None
            THEN Some(<< row.v.resolution_width[1], row.v.resolution_height[1] >>)
            ELSE None
        duration == IF row.v.video_duration # None THEN row.v.video_duration
                    ELSE Some(row.f.duration)
    IN  [ FileInfo(row.f.path, row.f.size, row.f.extension, row.f.created_time,
                   row.f.modified_time, None, row.f.mime_type)
          EXCEPT !.video_duration = duration, !.video_resolution = video_resolution,
                 !.video_fps = row.v.video_fps, !.video_codec = row.v.video_codec,
                 !.audio_codec = row.v.audio_codec ]

\* files LEFT JOIN video_metadata: the rows earlier calls left, then the rows
\* of the committed batch
JoinedRows ==
    st_table \o
    [ k \in 1..Len(st_files_rows) |->
        [ f |-> FilesRow(st_infos[st_files_rows[k]]),
          v |-> IF \E j \in 1..Len(st_video_rows) : st_video_rows[j] = st_files_rows[k]
                THEN VideoMetadataRow(st_infos[st_files_rows[k]])
                ELSE NoVideoMetadataRow,
          is_video |-> is_video(st_infos[st_files_rows[k]]) ] ]

\* lines 323-348: the answers the query may give
QueryRows(video_only, extension_filter, limit) ==
    LET selected == SelectSeq(JoinedRows, LAMBDA x :
                        /\ ~video_only \/ x.is_video
                        /\ extension_filter # << >> =>
                              \E j \in 1..Len(extension_filter) :
                                  x.f.extension = extension_filter[j])
    IN  { SubSeq(ordered, 1, IF Len(ordered) < limit THEN Len(ordered) ELSE limit) :
            ordered \in OrderByPath(selected) }

\* the --extension options of db-insights; none gives no filter
ExtensionFilters == { << >>, << ".txt" >>, << ".py", ".mp4" >> }

\* retrieve_file_infos(limit, video_only, extension_filter) once the batch is
\* committed; the query may raise
RetrieveFileInfos ==
    /\ st_pc = "returned"
    /\ \E ok \in BOOLEAN, video_only \in BOOLEAN, limit \in { 2, 1000 },
          extension_filter \in ExtensionFilters :
         IF ok
         THEN /\ \E rows \in QueryRows(video_only, extension_filter, limit) :
                    st_retrieved' = Some([ k \in 1..Len(rows) |-> RowToFileInfo(rows[k]) ])
              /\ st_pc' = "retrieved"
         ELSE st_pc' = "retrieve_raised" /\ UNCHANGED st_retrieved
    /\ UNCHANGED <<st_infos, st_i, st_count, st_errors, st_attempted, st_commit, st_files_rows,
                   st_video_rows, st_return, st_table, st_aborted, st_deleted>>
    /\ UNCHANGED <<scanInputs, scanState>>

\* delete_all_files, lines 405-424: the number of rows of files is counted,
\* every row is deleted, video_metadata with it by the cascade, and the count
\* is returned; any statement may raise
DeleteAllFiles ==
    /\ st_pc = "returned"
    /\ \E ok \in BOOLEAN :
         IF ok
         THEN /\ st_deleted' = Some(Len(JoinedRows))
              /\ st_table' = << >> /\ st_files_rows' = << >> /\ st_video_rows' = << >>
              /\ UNCHANGED st_pc
         ELSE /\ st_pc' = "delete_raised"
              /\ UNCHANGED <<st_deleted, st_table, st_files_rows, st_video_rows>>
    /\ UNCHANGED <<st_infos, st_i, st_count, st_errors, st_attempted, st_commit,
                   st_return, st_retrieved, st_aborted>>
    /\ UNCHANGED <<scanInputs, scanState>>

NextStore ==
    \/ InitializeDatabase \/ StoreBegin \/ StoreRecord \/ StoreCommit
    \/ RetrieveFileInfos \/ DeleteAllFiles

SpecStore == InitStore /\ [][NextStore]_vars

(***************************************************************************)
(* insights.py: the aggregation of a record list                           *)
(***************************************************************************)
AggPaths == { "/t/a.txt", "/t/b.py", "/t/s/c.py", "/t/s/README" }

\* the sizes a record of each path is given
AggSizes(path_str) ==
    CASE path_str = "/t/a.txt" -> { 1, 3 }
      [] path_str = "/t/s/c.py" -> { 1 }
      [] OTHER -> { 0, 1 }

AggCreated(path_str) ==
    CASE path_str = "/t/a.txt" -> 100 [] path_str = "/t/b.py" -> 5000 [] OTHER -> 80000

AggRecords ==
    UNION { { FileInfo(p, n, Lower(PathSuffix(p)), AggCreated(p), AggCreated(p) + 1, None,
                       GuessType(p)) : n \in AggSizes(p) } : p \in AggPaths }

InitAgg ==
    /\ directory = "." /\ rootIsDir = TRUE /\ recursive = TRUE /\ exclude = << >>
    /\ video_metadata = FALSE /\ db_save = FALSE /\ db_connection = "none"
    /\ db_available = TRUE /\ verbose = FALSE /\ output \in BOOLEAN
    /\ fs \in { f \in FsChoices : f["a.txt"] = TextFile(3)
                                  /\ f["sub/V.MP4"] = TextFile(MIN_VIDEO_SIZE) }
    /\ now = 90000
    /\ pc = "insights"
    /\ paths_to_process = << >> /\ idx = 0 /\ result = << >>
    /\ files \in SeqsUpTo(AggRecords, MaxAggFiles)
    /\ stat_failed = {} /\ read_failed = {} /\ probed = {} /\ probe_failed = {}
    /\ enrich_error = {} /\ faults = 0 /\ db_error = None /\ saved_count = None
    /\ insights = None /\ displayed = FALSE /\ written = FALSE /\ report = None /\ exit_code = None
    /\ StoreIdle

NextAgg == GenerateInsights \/ Display \/ SaveOutput

SpecAgg == InitAgg /\ [][NextAgg]_vars

(***************************************************************************)
(* insights.py: the age distribution of a record list.  A record is one of *)
(* the ages that lie on or next to a threshold of _age_distribution, or    *)
(* one of the ages of the records of TestInsights.setUp.                   *)
(***************************************************************************)
MaxAgeFiles == 4

\* what datetime.now() answers, in seconds
AgeNow == 400000000

AgeChoices == { 43200, 86400, 432000, 864000, 31535999, 31536000, 94672800, 315360000 }

AgeRecords ==
    { FileInfo("/test/file1.txt", 1, ".txt", AgeNow - a, AgeNow - a, None,
               GuessType("/test/file1.txt")) : a \in AgeChoices }

InitAge ==
    /\ directory = "." /\ rootIsDir = TRUE /\ recursive = TRUE /\ exclude = << >>
    /\ video_metadata = FALSE /\ db_save = FALSE /\ db_connection = "none"
    /\ db_available = TRUE /\ verbose = FALSE /\ output \in BOOLEAN
    /\ fs \in { f \in FsChoices : f["a.txt"] = TextFile(3)
                                  /\ f["sub/V.MP4"] = TextFile(MIN_VIDEO_SIZE) }
    /\ now = AgeNow
    /\ pc = "insights"
    /\ paths_to_process = << >> /\ idx = 0 /\ result = << >>
    /\ files \in SeqsUpTo(AgeRecords, MaxAgeFiles)
    /\ stat_failed = {} /\ read_failed = {} /\ probed = {} /\ probe_failed = {}
    /\ enrich_error = {} /\ faults = 0 /\ db_error = None /\ saved_count = None
    /\ insights = None /\ displayed = FALSE /\ written = FALSE /\ report = None /\ exit_code = None
    /\ StoreIdle

SpecAge == InitAge /\ [][NextAgg]_vars

(***************************************************************************)
(* main.py: the scan of a directory that holds one file, from the moment   *)
(* parse_directory has listed it.  The file is drawn from names of every   *)
(* kind _get_file_info tells apart and from contents around the limits it  *)
(* tests.                                                                  *)
(***************************************************************************)
FilePaths == { "e.txt", "e.json", "README", "e.jpg", "e.mp4", "e.pyc" }

\* a file of ten characters, n of them control characters
CtrlFile(n) == [ size |-> 10, nuls |-> 0, ctrl |-> n ]

FileChoices ==
    { TextFile(0), TextFile(3), TextFile(PREVIEW_CHARS), TextFile(PREVIEW_CHARS + 1),
      TextFile(1024 * 1024 - 1), TextFile(1024 * 1024), NulFile, CtrlFile(1), CtrlFile(2) }

InitFile ==
    /\ directory = "." /\ rootIsDir = TRUE /\ recursive = FALSE
    /\ exclude \in { << >>, << "*.pyc" >> }
    /\ video_metadata \in BOOLEAN /\ db_save = FALSE /\ db_connection = "none"
    /\ db_available = TRUE /\ verbose = FALSE /\ output \in BOOLEAN
    /\ fs \in { [ x \in { p } |-> c ] : p \in FilePaths, c \in FileChoices }
    /\ now = 90000
    /\ pc = "scanning"
    /\ paths_to_process = << CHOOSE p \in DOMAIN fs : TRUE >> /\ idx = 1
    /\ result = << >> /\ files = << >>
    /\ stat_failed = {} /\ read_failed = {} /\ probed = {} /\ probe_failed = {}
    /\ enrich_error = {} /\ faults = 0 /\ db_error = None /\ saved_count = None
    /\ insights = None /\ displayed = FALSE /\ written = FALSE /\ report = None /\ exit_code = None
    /\ StoreIdle

NextFile == ProcessFile \/ ParseEnd \/ GenerateInsights \/ Display \/ SaveOutput

SpecFile == InitFile /\ [][NextFile]_vars

(***************************************************************************)
(* insights.py: generate_insights on any list of records, as scan and      *)
(* db_insights hand it over: the records of a scan, or the rows of a table *)
(* that scans of several roots have filled, in which a path may occur more *)
(* than once.  The paths are absolute, relative, or begin with a part that *)
(* ends with ":\"; two of them differ in the root marker only, one is the  *)
(* path of a file that is a directory in another; one of the files is a    *)
(* video, enriched or not.                                                 *)
(***************************************************************************)
MaxNestFiles == 3

\* the root and the name below it of every path a record may have
NestPlaces ==
    { << "/t", "a.txt" >>, << "t", "a.txt" >>, << "C:\\/t", "b.py" >>,
      << "/t", "s/c.py" >>, << "/t", "s/v.mp4" >>, << "/t", "s" >> }

NestSizes(root, rel) ==
    CASE rel = "a.txt" -> (IF root = "/t" THEN { 1, 3 } ELSE { 3 })
      [] rel = "s/v.mp4" -> { MIN_VIDEO_SIZE }
      [] OTHER -> { 1 }

NestCreated(rel) ==
    CASE rel = "a.txt" -> 100 [] rel = "b.py" -> 5000 [] OTHER -> 80000

\* the records _get_file_info gives for the file: one, or for a video the
\* record as it is and the record with the metadata of a probe
NestRecordsOf(root, rel) ==
    LET path_str == JoinPath(root, rel)
        plain == { FileInfo(path_str, n, Lower(PathSuffix(path_str)), NestCreated(rel),
                            NestCreated(rel) + 1, None, GuessType(path_str)) : n \in NestSizes(root, rel) }
    IN  plain \cup { ExtractVideoMetadata(f, f.size, ClipOK).info :
                     f \in { g \in plain : is_video(g) } }

NestRecords == UNION { NestRecordsOf(p[1], p[2]) : p \in NestPlaces }

InitNest ==
    /\ directory = "." /\ rootIsDir = TRUE /\ recursive = TRUE /\ exclude = << >>
    /\ video_metadata = TRUE /\ db_save = FALSE /\ db_connection = "none"
    /\ db_available = TRUE /\ verbose = FALSE /\ output = TRUE
    /\ fs \in { f \in FsChoices : f["a.txt"] = TextFile(3)
                                  /\ f["sub/V.MP4"] = TextFile(MIN_VIDEO_SIZE) }
    /\ now = 90000
    /\ pc = "insights"
    /\ paths_to_process = << >> /\ idx = 0 /\ result = << >>
    /\ files \in SeqsUpTo(NestRecords, MaxNestFiles)
    /\ stat_failed = {} /\ read_failed = {} /\ probed = {} /\ probe_failed = {}
    /\ enrich_error = {} /\ faults = 0 /\ db_error = None /\ saved_count = None
    /\ insights = None /\ displayed = FALSE /\ written = FALSE /\ report = None /\ exit_code = None
    /\ StoreIdle

\* generate_insights is called once on the list
NextNest == GenerateInsights

SpecNest == InitNest /\ [][NextNest]_vars

(***************************************************************************)
(* insights.py: generate_insights called again on the same generator while *)
(* the clock that _age_distribution reads moves on.                        *)
(***************************************************************************)
MaxClockFiles == 2

MaxTicks == 2

InitClock ==
    /\ directory = "." /\ rootIsDir = TRUE /\ recursive = TRUE /\ exclude = << >>
    /\ video_metadata = FALSE /\ db_save = FALSE /\ db_connection = "none"
    /\ db_available = TRUE /\ verbose = FALSE /\ output = FALSE
    /\ fs \in { f \in FsChoices : f["a.txt"] = TextFile(3)
                                  /\ f["sub/V.MP4"] = TextFile(MIN_VIDEO_SIZE) }
    /\ now = AgeNow
    /\ pc = "insights"
    /\ paths_to_process = << >> /\ idx = 0 /\ result = << >>
    /\ files \in SeqsUpTo(AgeRecords, MaxClockFiles)
    /\ stat_failed = {} /\ read_failed = {} /\ probed = {} /\ probe_failed = {}
    /\ enrich_error = {} /\ faults = 0 /\ db_error = None /\ saved_count = None
    /\ insights = None /\ displayed = FALSE /\ written = FALSE /\ report = None /\ exit_code = None
    /\ StoreIdle

\* datetime.now() of line 248 answers a later time: half a day passes
Tick ==
    /\ now < AgeNow + MaxTicks * 43200
    /\ now' = now + 43200
    /\ UNCHANGED <<directory, rootIsDir, recursive, exclude, video_metadata, db_save,
                   db_connection, db_available, verbose, output, fs>>
    /\ UNCHANGED <<scanState, storeVars>>

\* InsightGenerator.generate_insights, called once more on the same generator
GenerateInsightsAgain ==
    /\ pc = "display" /\ insights # None
    /\ insights' = Some(GenerateInsightsData(files, now))
    /\ UNCHANGED <<pc, paths_to_process, idx, result, files, stat_failed, read_failed, probed,
                   probe_failed, enrich_error, faults, db_error, saved_count, displayed,
                   written, report, exit_code>>
    /\ UNCHANGED <<scanInputs, storeVars>>

NextClock == Tick \/ GenerateInsights \/ GenerateInsightsAgain

SpecClock == InitClock /\ [][NextClock]_vars

(***************************************************************************)
(* Properties                                                              *)
(***************************************************************************)
ReturnedPaths(fl) == { fl[k].path : k \in 1..Len(fl) }

ScanFinished == pc \in { "db", "db_test", "db_init", "db_store", "db_verify",
                         "insights", "display", "save", "done" }

\* the candidate paths that the loop of parse_directory does not skip
AdmittedPaths ==
    { paths_to_process[k] : k \in { j \in 1..Len(paths_to_process) :
                                     ~ShouldExclude(exclude, paths_to_process[j]) } }

NoVideoFields(f) ==
    /\ f.video_duration = None /\ f.video_resolution = None /\ f.video_fps = None
    /\ f.video_codec = None /\ f.audio_codec = None

\* C1, as stated: the extension statistics are sorted by group total size,
\* descending: each entry's size is at least the next entry's size.
C1_SortedBySizeDescending ==
    insights # None =>
        \A k \in 1..(Len(insights[1].file_types) - 1) :
            insights[1].file_types[k].size >= insights[1].file_types[k + 1].size

\* C1, amended: the extension statistics are sorted by group file count,
\* descending, and groups of equal count keep the order in which their
\* extension first occurs in the input.
C1_SortedByCountDescending ==
    insights # None =>
        LET ft == insights[1].file_types
            first(e) == CHOOSE i \in 1..Len(files) :
                          /\ files[i].extension = e
                          /\ \A j \in 1..(i - 1) : files[j].extension # e
        IN  \A k \in 1..(Len(ft) - 1) :
              /\ ft[k].count >= ft[k + 1].count
              /\ ft[k].count = ft[k + 1].count =>
                    first(ft[k].extension) < first(ft[k + 1].extension)

\* C1 witness: an aggregate whose first group has more files and less size
\* than its second.
C1_Witness ==
    /\ insights # None
    /\ Len(insights[1].file_types) >= 2
    /\ insights[1].file_types[1].count > insights[1].file_types[2].count
    /\ insights[1].file_types[1].size < insights[1].file_types[2].size

\* C2: a path whose stat() fails is skipped and the scan goes on: the scan
\* command is not aborted by it.
C2_StatFailureIsSkipped ==
    stat_failed # {} => pc # "failed" /\ exit_code # Some(1)

\* C3: with no exclude patterns given, the default patterns are applied: a
\* finished scan returns no file that a default pattern matches.
C3_DefaultPatternsApplied ==
    (exclude = << >> /\ ScanFinished) =>
        \A k \in 1..Len(files) : ~ShouldExclude(DEFAULT_EXCLUDE_PATTERNS, files[k].path)

\* C4: no returned record's path matches an exclude pattern, and with the
\* pattern **/.git/** the file .git/config of the tree is never returned.
C4_GitConfigNeverReturned ==
    /\ \A k \in 1..Len(result) : ~ShouldExclude(exclude, result[k].path)
    /\ exclude = << "**/.git/**" >> =>
          \A k \in 1..Len(result) : RelOf(directory, result[k].path) # ".git/config"

\* the part of C4 that the code keeps: no returned record's path matches an
\* exclude pattern under fnmatch.
NoReturnedPathMatchesExclude ==
    \A k \in 1..Len(result) : ~ShouldExclude(exclude, result[k].path)

\* the scan ended in the handler of main.py lines 215-221 because
\* insights.save raised: the insights were displayed and no report was written
SaveFailed ==
    pc = "failed" /\ exit_code = Some(1) /\ output /\ displayed /\ ~written /\ report = None

\* C5, as stated: in a run whose root is not a directory or whose connection
\* string is missing or unusable, no file is enumerated or processed.
C5_ConfigErrorBeforeAnyWork ==
    (~rootIsDir \/ (db_save /\ db_available /\ db_connection \in { "none", "bad" })) =>
        idx = 0 /\ result = << >>

\* C5, amended: a root that is not a directory ends the run with an error
\* before any file is enumerated or processed; a missing or unusable
\* connection string is reported only once every path has been processed, and
\* the run goes on to the insights: it is not this error that ends it.
C5_InvalidRootBeforeAnyWork ==
    /\ ~rootIsDir =>
          /\ idx = 0 /\ paths_to_process = << >> /\ result = << >> /\ files = << >>
          /\ pc \in { "start", "failed" }
          /\ pc = "failed" => exit_code = Some(1)
    /\ db_error \in { Some("construct"), Some("connect") } =>
          /\ db_connection = "none" <=> db_error = Some("construct")
          /\ idx > Len(paths_to_process)
          /\ files = result
          /\ pc \in { "insights", "display", "save", "done" } \/ SaveFailed

\* C5 witness: a run on something that is not a directory has failed.
C5_Witness ==
    ~rootIsDir /\ pc = "failed" /\ exit_code = Some(1)

\* C6: after a database error of any stage the scan command still generates
\* the insights from every scanned record, displays them and, when an output
\* file was asked for, goes on to write it: the database error never ends the
\* scan, which returns 0 with the report written unless the output file
\* itself cannot be opened.
C6_DatabaseErrorKeepsReport ==
    db_error # None =>
        /\ pc \in { "insights", "display", "save", "done" } \/ SaveFailed
        /\ files = result
        /\ idx > Len(paths_to_process)
        /\ pc = "display" => /\ ReturnedPaths(files) = AdmittedPaths
                             /\ insights = Some(GenerateInsightsData(result, now))
        /\ pc \in { "save", "done", "failed" } =>
              /\ displayed
              /\ insights # None
              /\ insights[1].general_stats.total_files = Len(files)
        /\ pc = "done" => exit_code = Some(0) /\ (output => written /\ report # None)

\* C6 witness: a scan with records whose store failed has written its report.
C6_Witness ==
    /\ db_error = Some("store") /\ pc = "done" /\ written /\ Len(files) >= 2
    /\ insights # None /\ insights[1].general_stats.total_files = Len(files)

\* C7: in store_file_infos a failing record does not end the batch: its
\* error is collected, every later record is still attempted, and the commit
\* is issued after the last record.
C7_BatchContinuesAfterError ==
    /\ st_pc = "loop" => st_attempted = 1..(st_i - 1) /\ ~st_commit
    /\ (st_pc \in { "returned", "raised" } /\ st_i > 0) =>
          st_commit /\ st_attempted = 1..Len(st_infos)
    /\ st_commit => st_i = Len(st_infos) + 1
    /\ \A k \in 1..Len(st_errors) : st_errors[k] \in st_attempted
    /\ Len(st_errors) <= Cardinality(st_attempted)

\* C7 witness: a batch whose first record failed has been committed with a
\* later record stored.
C7_Witness ==
    /\ st_pc = "returned" /\ st_commit
    /\ Len(st_errors) = 1 /\ st_errors[1] = 1
    /\ Len(st_files_rows) >= 1 /\ st_files_rows[1] > 1

\* C8: a file whose preview read raised still gets its record, with no
\* preview and not binary, and the scan goes on: read errors never end the
\* scan, and a finished scan returns every path that is not excluded.
C8_ReadErrorIsolated ==
    /\ \A p \in read_failed :
          \E k \in 1..Len(result) :
             /\ result[k].path = p
             /\ result[k].content_preview = None
             /\ ~is_binary(result[k])
    /\ pc = "failed" => ~rootIsDir \/ stat_failed # {} \/ SaveFailed
    /\ ScanFinished =>
          ReturnedPaths(files) = AdmittedPaths

\* C8 witness: a finished scan with a read failure and several records.
C8_Witness ==
    pc = "done" /\ read_failed # {} /\ Len(files) >= 3

\* C9, as stated: whenever an exception occurred inside the enrichment of a
\* file, its record has no video field.
C9_NoVideoFieldsAfterAnyException ==
    \A k \in 1..Len(result) :
        result[k].path \in enrich_error => NoVideoFields(result[k])

\* C9, amended: extract_video_metadata never raises (an exception inside it
\* never ends the scan and the record is still produced); when the probe
\* itself fails (the import, the size lookup or the opening of the clip) the
\* record has no video field.
C9_EnrichmentNeverRaises ==
    /\ \A p \in enrich_error : \E k \in 1..Len(result) : result[k].path = p
    /\ pc = "failed" => ~rootIsDir \/ stat_failed # {} \/ SaveFailed
    /\ \A k \in 1..Len(result) :
          result[k].path \in probe_failed => NoVideoFields(result[k])
    /\ probe_failed \subseteq enrich_error

\* C9 witness: a finished scan holding the record of a video whose probe failed.
C9_Witness ==
    /\ pc = "done" /\ probe_failed # {}
    /\ \E k \in 1..Len(files) : files[k].path \in probe_failed /\ is_video(files[k])

\* C10: a file with a video extension and a size below 10000 bytes is never
\* probed, and its record is a video without video metadata.
C10_SmallVideoNotProbed ==
    \A k \in 1..Len(result) :
        (Lower(PathSuffix(result[k].path)) \in COMMON_VIDEO_EXTENSIONS
         /\ result[k].size < 10000) =>
            /\ result[k].path \notin probed
            /\ is_video(result[k])
            /\ ~has_video_metadata(result[k])

\* C10 witness: a finished scan with enrichment on holding a small video.
C10_Witness ==
    /\ pc = "done" /\ video_metadata
    /\ \E k \in 1..Len(files) :
          is_video(files[k]) /\ files[k].size = MIN_VIDEO_SIZE - 1

\* the ages, in seconds, of the records the insights were generated from
AgeOf(k) == now - files[k].created_time

\* the range of ages each label of _age_distribution stands for
InBucket(label, age) ==
    CASE label = "Last 24 hours" -> age < 86400
      [] label = "Last week"     -> 86400 <= age /\ age < 604800
      [] label = "Last month"    -> 604800 <= age /\ age < 2592000
      [] label = "Last year"     -> 2592000 <= age /\ age < 31536000
      [] label = "Last 3 years"  -> 31536000 <= age /\ age < 94672800
      [] label = "Last 10 years" -> 94672800 <= age /\ age < 315360000
      [] label = "Older"         -> 315360000 <= age
      [] OTHER -> FALSE

\* the sum of the values of a mapping with a finite domain
RECURSIVE SumCounts(_)
SumCounts(d) ==
    IF DOMAIN d = {} THEN 0
    ELSE LET b == CHOOSE x \in DOMAIN d : TRUE
         IN  d[b] + SumCounts([ x \in DOMAIN d \ { b } |-> d[x] ])

\* C11: the age buckets partition the record set: for a non-empty input each
\* record falls in exactly one bucket of the returned mapping, the counts of
\* the mapping sum to the number of records, and no bucket of the mapping is
\* empty.
C11_AgeBucketsPartition ==
    (insights # None /\ files # << >>) =>
        LET d == insights[1].age_distribution
        IN  /\ SumCounts(d) = Len(files)
            /\ \A b \in DOMAIN d : d[b] > 0
            /\ \A k \in 1..Len(files) :
                  Cardinality({ b \in DOMAIN d : InBucket(b, AgeOf(k)) }) = 1

\* C11 witness: a distribution of three or more records over several buckets,
\* the oldest bucket among them, with other buckets left out as empty.
C11_Witness ==
    /\ insights # None
    /\ Len(files) >= 3
    /\ "Older" \in DOMAIN insights[1].age_distribution
    /\ Cardinality(DOMAIN insights[1].age_distribution) >= 2
    /\ "Last week" \notin DOMAIN insights[1].age_distribution

\* C12, as stated: the distribution has the five buckets <24h, <7d, <30d,
\* <365d and older: every record aged 31536000 seconds or more is counted in
\* one single bucket, and the result has at most five keys.
C12_FiveBuckets ==
    insights # None =>
        LET d == insights[1].age_distribution
            young == { "Last 24 hours", "Last week", "Last month", "Last year" }
        IN  /\ Cardinality(DOMAIN d \ young) <= 1
            /\ Cardinality(DOMAIN d) <= 5

\* C12, amended: the distribution has seven buckets, bounded by 86400, 604800,
\* 2592000, 31536000, 94672800 and 315360000 seconds of (now - created_time):
\* each key counts the records whose age lies in its range, the records aged
\* 315360000 seconds or more are the ones counted under "Older", and the
\* result never has more than seven keys.
C12_SevenBuckets ==
    insights # None =>
        LET d == insights[1].age_distribution
            oldest == { k \in 1..Len(files) : AgeOf(k) >= 315360000 }
        IN  /\ \A b \in DOMAIN d :
                  d[b] = Cardinality({ k \in 1..Len(files) : InBucket(b, AgeOf(k)) })
            /\ \A k \in 1..Len(files) : \E b \in DOMAIN d : InBucket(b, AgeOf(k))
            /\ oldest # {} => ("Older" \in DOMAIN d /\ d["Older"] = Cardinality(oldest))
            /\ oldest = {} => "Older" \notin DOMAIN d
            /\ Cardinality(DOMAIN d) <= 7

\* C12 witness: records of one year, of three years and of ten years of age
\* counted under three different keys.
C12_Witness ==
    /\ insights # None
    /\ { "Last 3 years", "Last 10 years", "Older" } \subseteq DOMAIN insights[1].age_distribution

\* C13, as stated: for records created 10 days, 5 days, 1 day and 12 hours
\* before now the distribution is keyed 'Last 24 hours', 'Last 7 days' and
\* 'Last 30 days' and counts 1, 1 and 2.
C13_TestAgeDistribution ==
    (/\ insights # None
     /\ Len(files) = 4
     /\ << AgeOf(1), AgeOf(2), AgeOf(3), AgeOf(4) >> = << 864000, 432000, 86400, 43200 >>) =>
        LET d == insights[1].age_distribution
        IN  /\ DOMAIN d = { "Last 24 hours", "Last 7 days", "Last 30 days" }
            /\ d["Last 24 hours"] = 1
            /\ d["Last 7 days"] = 1
            /\ d["Last 30 days"] = 2

\* the entries of a sequence as a mapping from its indices
FieldOf(seq, field(_)) == [ k \in 1..Len(seq) |-> field(seq[k]) ]

SizeField(x) == x.size
CountField(x) == x.count

\* the floats of a sequence added from left to right, from 0
RECURSIVE FloatSum(_)
FloatSum(seq) ==
    IF seq = << >> THEN FloatZero
    ELSE FloatAdd(FloatSum(SubSeq(seq, 1, Len(seq) - 1)), seq[Len(seq)])

\* x is n / d to within ulps halves of a unit of its last place (x below 2^53)
FloatNear(x, n, d, ulps) ==
    IF x.m = << >> THEN n = 0
    ELSE LET A == BigMul(x.m, BigOf(2 * d))
             B == ShiftLeft(BigOf(2 * n), 0 - x.e)
             slack == BigOf(ulps * d)
         IN  /\ x.e <= 0
             /\ BitLen(x.m) = MANT_DIG
             /\ BigLe(A, BigAdd(B, slack))
             /\ BigLe(B, BigAdd(A, slack))

\* C14: the count fields of the extension statistics sum to the number of
\* records, and there is exactly one entry per distinct extension of the
\* input, the empty extension being a group of its own.
C14_CountsSumToTotal ==
    insights # None =>
        LET ft == insights[1].file_types
        IN  /\ SumCounts(FieldOf(ft, CountField)) = Len(files)
            /\ { ft[k].extension : k \in 1..Len(ft) }
                  = { files[i].extension : i \in 1..Len(files) }
            /\ \A j, k \in 1..Len(ft) : ft[j].extension = ft[k].extension => j = k
            /\ \A k \in 1..Len(ft) :
                  ft[k].count = Cardinality({ i \in 1..Len(files) :
                                                files[i].extension = ft[k].extension })

\* C14 witness: statistics with an entry for the empty extension next to an
\* entry that counts two files.
C14_Witness ==
    /\ insights # None
    /\ \E j, k \in 1..Len(insights[1].file_types) :
          /\ insights[1].file_types[j].extension = ""
          /\ insights[1].file_types[k].count = 2

\* C15, as stated: each percentage is the group size over the total size
\* times 100 and the percentages sum to 100 when the total size is positive;
\* when the total size is 0 every percentage is 0.
C15_PercentagesSumTo100 ==
    insights # None =>
        LET ft == insights[1].file_types
            total == SumCounts(FieldOf(files, SizeField))
        IN  IF total > 0
            THEN /\ \A k \in 1..Len(ft) : FloatNear(ft[k].percentage, 100 * ft[k].size, total, 4)
                 /\ FloatSum([ k \in 1..Len(ft) |-> ft[k].percentage ]) = FloatDiv(100, 1)
            ELSE \A k \in 1..Len(ft) : ft[k].percentage = FloatZero

\* C15, amended: each percentage is the float (size / total) * 100, which is
\* the group size over the total size times 100 to within two units of its
\* last place, and the percentages sum to 100 to within floating point
\* rounding (less than one millionth) when the total size is positive; when
\* the total size is 0 every percentage is 0 and nothing is divided.
C15_PercentagesWithinRounding ==
    insights # None =>
        LET ft == insights[1].file_types
            total == SumCounts(FieldOf(files, SizeField))
            sum == FloatSum([ k \in 1..Len(ft) |-> ft[k].percentage ])
        IN  IF total > 0
            THEN /\ \A k \in 1..Len(ft) : FloatNear(ft[k].percentage, 100 * ft[k].size, total, 4)
                 /\ FloatLe(FloatDiv(99999999, 1000000), sum)
                 /\ FloatLe(sum, FloatDiv(100000001, 1000000))
            ELSE \A k \in 1..Len(ft) : ft[k].percentage = FloatZero

\* C15 witness: statistics of files that are all empty, and statistics whose
\* percentages do not add up to 100 exactly.
C15_Witness ==
    /\ insights # None
    /\ Len(insights[1].file_types) >= 2
    /\ \/ insights[1].general_stats.total_size = 0
       \/ FloatSum([ k \in 1..Len(insights[1].file_types) |->
                       insights[1].file_types[k].percentage ]) # FloatDiv(100, 1)

\* C16: total_files is the number of records, total_size the sum of their
\* sizes and average_size the float nearest to total_size / total_files; for
\* an empty list the four numbers are 0 and oldest and newest are 'N/A'.
C16_GeneralStatistics ==
    insights # None =>
        LET g == insights[1].general_stats
            total == SumCounts(FieldOf(files, SizeField))
        IN  IF files = << >>
            THEN /\ g.total_files = 0 /\ g.total_size = 0 /\ g.average_size = FloatZero
                 /\ g.total_directories = 0
                 /\ g.oldest_file = << "N/A" >> /\ g.newest_file = << "N/A" >>
            ELSE /\ g.total_files = Len(files)
                 /\ g.total_size = total
                 /\ FloatNear(g.average_size, total, Len(files), 1)

\* C16 witness: statistics of three files whose sizes sum to 4.
C16_Witness ==
    /\ insights # None
    /\ Len(files) = 3
    /\ insights[1].general_stats.total_size = 4

\* C17: total_directories is the number of distinct immediate parents of the
\* records; it is at most the number of records and at least 1 for a
\* non-empty list.
C17_TotalDirectories ==
    insights # None =>
        LET n == insights[1].general_stats.total_directories
        IN  /\ n = Cardinality({ PathParent(files[k].path) : k \in 1..Len(files) })
            /\ n <= Len(files)
            /\ files # << >> => n >= 1

\* C17 witness: three records in two directories.
C17_Witness ==
    /\ insights # None
    /\ Len(files) = 3
    /\ insights[1].general_stats.total_directories = 2

\* the test of lines 149-153 on the record's own fields
LikelyBinary(f) ==
    \/ f.extension \in COMMON_BINARY_EXTENSIONS
    \/ f.mime_type # None /\ ~TextLike(f.mime_type[1])

\* C18: a non-recursive parse_directory returns only files that are direct
\* children of the root: every returned path has the root as its parent and
\* no file of a subdirectory is returned.
C18_NonRecursiveOnlyChildren ==
    ~recursive =>
        \A k \in 1..Len(result) :
            /\ PathParent(result[k].path) = directory
            /\ RelOf(directory, result[k].path) \in { TreeFiles("")[j] : j \in 1..Len(TreeFiles("")) }
            /\ \A sub \in { TreeDirs("")[j] : j \in 1..Len(TreeDirs("")) } :
                  ~StartsWith(RelOf(directory, result[k].path), sub \o "/")

\* C18 witness: a finished non-recursive scan that returned the file of the
\* root, in a tree whose subdirectories hold files too.
C18_Witness ==
    /\ ~recursive /\ pc = "done"
    /\ Len(files) = 1
    /\ TreeFiles("sub") # << >>

\* C19: a content preview is present only if the record is non-binary and the
\* file is smaller than 1048576 bytes, and it has at most 1000 characters.
C19_PreviewOnlyForSmallText ==
    \A k \in 1..Len(result) :
        result[k].content_preview # None =>
            /\ ~is_binary(result[k])
            /\ ~LikelyBinary(result[k])
            /\ result[k].size < 1048576
            /\ result[k].content_preview[1].len <= 1000

\* C19 witness: a record of a file of 1048575 bytes with a preview of 1000
\* characters.
C19_Witness ==
    /\ pc = "done"
    /\ \E k \in 1..Len(files) :
          /\ files[k].size = 1048575
          /\ files[k].content_preview # None
          /\ files[k].content_preview[1].len = 1000

\* C20, as stated: the record of a zero-byte file is non-binary and its
\* content_preview is the empty string, not none.
C20_ZeroByteFileEmptyPreview ==
    \A k \in 1..Len(result) :
        result[k].size = 0 =>
            /\ ~is_binary(result[k])
            /\ result[k].content_preview # None
            /\ result[k].content_preview[1].len = 0

\* C20, amended: the record of a zero-byte file whose name is not likely
\* binary (its extension is not a known binary extension and its guessed MIME
\* type is absent or text-like) and whose read did not fail is non-binary and
\* has the empty string as content_preview; the record of any other zero-byte
\* file has no content_preview.
C20_ZeroByteTextFileEmptyPreview ==
    \A k \in 1..Len(result) :
        result[k].size = 0 =>
            IF ~LikelyBinary(result[k]) /\ result[k].path \notin read_failed
            THEN /\ ~is_binary(result[k])
                 /\ result[k].content_preview # None
                 /\ result[k].content_preview[1].len = 0
            ELSE result[k].content_preview = None

\* C20 witness: a finished scan that returned an empty text file with the
\* empty preview.
C20_Witness ==
    /\ pc = "done"
    /\ \E k \in 1..Len(files) :
          /\ files[k].size = 0
          /\ files[k].content_preview = Some(ReadPrefix(TextFile(0)))
          /\ ~is_binary(files[k])

\* the leaves of a file tree, or of its JSON form
RECURSIVE Leaves(_)
Leaves(node) ==
    IF DOMAIN node # {} /\ DOMAIN node \subseteq FileDataKeys THEN { node }
    ELSE UNION { Leaves(node[k]) : k \in DOMAIN node }

\* the key sequences that lead to the leaves of a file tree
RECURSIVE LeafNames(_)
LeafNames(node) ==
    IF DOMAIN node # {} /\ DOMAIN node \subseteq FileDataKeys THEN { << >> }
    ELSE UNION { { << k >> \o rest : rest \in LeafNames(node[k]) } : k \in DOMAIN node }

\* C21: the JSON report written by Insights.save holds every video resolution
\* as the string "WxH", and reading the file back gives the counts, the
\* percentages and the leaf names of the file tree of the insights it was
\* written from.
C21_ReportRendersTuplesAsStrings ==
    report # None =>
        /\ \A leaf \in Leaves(report[1].file_tree) :
              ("video_resolution" \in DOMAIN leaf /\ leaf.video_resolution # None) =>
                  /\ leaf.video_resolution[1].json = "string"
                  /\ \E w, h \in Int :
                        leaf.video_resolution[1] = SerializeData(<< w, h >>)
        /\ report[1].general_stats = insights[1].general_stats
        /\ report[1].file_types = insights[1].file_types
        /\ report[1].age_distribution = insights[1].age_distribution
        /\ LeafNames(report[1].file_tree) = LeafNames(insights[1].file_tree)

\* C22: a file that was not pre-classified binary and whose first 1000 decoded
\* characters hold a null character, or more than 10% non-printable
\* characters, gives a record that has no content_preview and whose is_binary
\* is true.
C22_SniffedBinaryIsBinary ==
    \A k \in 1..Len(result) :
        LET file == fs[RelOf(directory, result[k].path)]
        IN  ( /\ PreviewAttempted(result[k].path, file)
              /\ result[k].path \notin read_failed
              /\ LooksBinary(ReadPrefix(file)) ) =>
                /\ result[k].content_preview = None
                /\ is_binary(result[k])

\* C23: after enrichment video_resolution is absent or a pair of positive
\* integers and video_fps is absent or greater than 0: a resolution component
\* or an fps that the probe answers as zero or negative is stored as absent.
C23_ResolutionAndFpsPositive ==
    \A k \in 1..Len(result) :
        /\ result[k].video_resolution # None =>
              /\ result[k].video_resolution[1][1] > 0
              /\ result[k].video_resolution[1][2] > 0
        /\ result[k].video_fps # None => result[k].video_fps[1] > 0

\* the directories of the scanned tree below a node, by their relative names
RECURSIVE DirsBelow(_)
DirsBelow(node) ==
    UNION { { TreeChild(node, TreeDirs(node)[k]) } \cup DirsBelow(TreeChild(node, TreeDirs(node)[k])) :
            k \in 1..Len(TreeDirs(node)) }

\* C24: in recursive mode no file below a subdirectory that matches an exclude
\* pattern is returned, whether or not the file's own path matches a pattern.
C24_ExcludedDirectoryIsPruned ==
    recursive =>
        \A k \in 1..Len(result) :
            \A d \in DirsBelow("") :
                StartsWith(RelOf(directory, result[k].path), d \o "/") =>
                    ~ShouldExclude(exclude, JoinPath(directory, d))

\* C24 witness: a finished recursive scan that pruned sub, whose file b.py
\* matches no pattern itself, and returned the files of the other directories.
C24_Witness ==
    /\ recursive /\ pc = "done"
    /\ ShouldExclude(exclude, JoinPath(directory, "sub"))
    /\ ~ShouldExclude(exclude, JoinPath(directory, "sub/b.py"))
    /\ JoinPath(directory, "sub/b.py") \notin ReturnedPaths(files)
    /\ JoinPath(directory, ".git/config") \in ReturnedPaths(files)

\* C25: the oldest file is the first record, in input order, whose
\* created_time is the least, and the newest file is the first record whose
\* created_time is the greatest.
C25_FirstOccurrenceWinsTies ==
    (insights # None /\ files # << >>) =>
        /\ \E i \in 1..Len(files) :
              /\ \A j \in 1..Len(files) : files[j].created_time >= files[i].created_time
              /\ \A j \in 1..(i - 1) : files[j].created_time > files[i].created_time
              /\ insights[1].general_stats.oldest_file = FileLabel(files[i])
        /\ \E i \in 1..Len(files) :
              /\ \A j \in 1..Len(files) : files[j].created_time <= files[i].created_time
              /\ \A j \in 1..(i - 1) : files[j].created_time < files[i].created_time
              /\ insights[1].general_stats.newest_file = FileLabel(files[i])

\* C25 witness: insights of records that all have the same created_time and
\* of which the first and the last have different names: the first is both
\* the oldest and the newest.
C25_Witness ==
    /\ insights # None /\ Len(files) >= 2
    /\ \A j \in 1..Len(files) : files[j].created_time = files[1].created_time
    /\ name(files[Len(files)]) # name(files[1])
    /\ insights[1].general_stats.oldest_file = FileLabel(files[1])
    /\ insights[1].general_stats.newest_file = FileLabel(files[1])

\* the value a file tree holds under a sequence of keys, {} when it has none
RECURSIVE TreeLookup(_, _)
TreeLookup(node, keys) ==
    IF keys = << >> THEN node
    ELSE IF keys[1] \in DOMAIN node THEN TreeLookup(node[keys[1]], Tail(keys))
    ELSE EmptyDict

\* the path segments of a record without a leading root or drive segment
SegmentsBelowRoot(path_str) ==
    LET parts == PathParts(path_str)
    IN  IF parts[1] \in { "/", "C:\\" } THEN Tail(parts) ELSE parts

\* the file tree of the insights holds at the segments of record i the leaf
\* of that record: its size, extension and is_video, and the video metadata
\* block (has_video_metadata, duration, resolution, fps, codecs) exactly when
\* the record has video metadata
LeafCarries(i) ==
    LET leaf == TreeLookup(insights[1].file_tree, SegmentsBelowRoot(files[i].path))
    IN  /\ { "size", "extension", "is_video" } \subseteq DOMAIN leaf
        /\ leaf.size = files[i].size
        /\ leaf.extension = files[i].extension
        /\ leaf.is_video = is_video(files[i])
        /\ IF has_video_metadata(files[i])
           THEN /\ DOMAIN leaf = FileDataKeys
                /\ leaf.has_video_metadata
                /\ leaf.video_duration = files[i].video_duration
                /\ leaf.video_resolution = files[i].video_resolution
                /\ leaf.video_fps = files[i].video_fps
                /\ leaf.video_codec = files[i].video_codec
                /\ leaf.audio_codec = files[i].audio_codec
           ELSE DOMAIN leaf = { "size", "extension", "is_video" }

\* no top-level key of the file tree is a root marker
NoRootKey == \A k \in DOMAIN insights[1].file_tree : k # "/" /\ ~EndsWith(k, ":\\")

\* a begins b and is shorter
ProperPrefix(a, b) == Len(a) < Len(b) /\ SubSeq(b, 1, Len(a)) = a

\* the segments of records i and j of fl are the same, or those of one begin
\* those of the other
KeysMeet(fl, i, j) ==
    LET a == SegmentsBelowRoot(fl[i].path)
        b == SegmentsBelowRoot(fl[j].path)
    IN  a = b \/ ProperPrefix(a, b) \/ ProperPrefix(b, a)

\* record i of files is the last with its segments, and its segments neither
\* begin nor continue those of another record
OwnLeaf(i) ==
    \A j \in 1..Len(files) :
        j # i /\ KeysMeet(files, i, j) =>
            j < i /\ SegmentsBelowRoot(files[j].path) = SegmentsBelowRoot(files[i].path)

\* C26 as stated: the file tree is a nested mapping keyed by path segments
\* without the leading root or drive segment: no top-level key is a root
\* marker, and for every record of the list the leaf at its segments holds
\* its size, extension and is_video, and the video metadata block exactly
\* when the record has video metadata.
C26_FileTreeLeaves ==
    insights # None => NoRootKey /\ \A i \in 1..Len(files) : LeafCarries(i)

\* C26: no top-level key of the file tree is a root marker, and the leaf at
\* the segments of a record holds that record's size, extension, is_video
\* and, exactly when it has video metadata, the video metadata block, for
\* every record that is the last of the list with its segments and whose
\* segments neither begin nor continue those of another record.
C26_FileTreeLeavesOfLastRecord ==
    insights # None =>
        NoRootKey /\ \A i \in 1..Len(files) : OwnLeaf(i) => LeafCarries(i)

\* C26 witness: the tree of two records whose paths differ only in the root
\* marker and whose sizes differ, and of a video with metadata: the leaf of
\* the two holds the size of the later one, the video's leaf its duration.
C26_Witness ==
    /\ insights # None /\ Len(files) = 3
    /\ files[1].path = "/t/a.txt" /\ files[2].path = "t/a.txt"
    /\ files[1].size # files[2].size
    /\ has_video_metadata(files[3]) /\ OwnLeaf(2) /\ OwnLeaf(3) /\ ~OwnLeaf(1)
    /\ DOMAIN insights[1].file_tree = { "t" }
    /\ insights[1].file_tree["t"]["a.txt"].size = files[2].size
    /\ "video_duration" \in DOMAIN insights[1].file_tree["t"]["s"]["v.mp4"]

\* the record lists that hold the records of fl in some order
Reordered(fl) ==
    { [ k \in 1..Len(fl) |-> fl[p[k]] ] : p \in Permutations(1..Len(fl)) }

\* the entries of a list, as a set
Entries(seq) == { seq[k] : k \in 1..Len(seq) }

\* no two records of fl have the same path
DistinctPaths(fl) == \A i, j \in 1..Len(fl) : i # j => fl[i].path # fl[j].path

\* no two records of fl have the same segments, and the segments of none
\* begin those of another
KeysApart(fl) == \A i, j \in 1..Len(fl) : i # j => ~KeysMeet(fl, i, j)

\* data has the totals, the age distribution and the set of extension entries
\* of the insights
SameCounts(data) ==
    /\ data.general_stats.total_files = insights[1].general_stats.total_files
    /\ data.general_stats.total_size = insights[1].general_stats.total_size
    /\ data.general_stats.average_size = insights[1].general_stats.average_size
    /\ data.general_stats.total_directories = insights[1].general_stats.total_directories
    /\ data.age_distribution = insights[1].age_distribution
    /\ Entries(data.file_types) = Entries(insights[1].file_types)

\* C28 as stated: generate_insights on the records of a list with distinct
\* paths, in any other order and at the same time, gives the same
\* total_files, total_size, average_size, total_directories, age
\* distribution and file tree, and the same set of extension entries.
C28_OrderTolerance ==
    (insights # None /\ DistinctPaths(files)) =>
        \A fl \in Reordered(files) :
            LET other == GenerateInsightsData(fl, now)
            IN  SameCounts(other) /\ other.file_tree = insights[1].file_tree

\* C28: generate_insights on the records of any list in any other order, at
\* the same time, gives the same total_files, total_size, average_size,
\* total_directories and age distribution and the same set of extension
\* entries; it gives the same file tree when no two records have the same
\* segments below the root marker and the segments of none begin those of
\* another.
C28_OrderToleranceOfApartKeys ==
    insights # None =>
        \A fl \in Reordered(files) :
            LET other == GenerateInsightsData(fl, now)
            IN  /\ SameCounts(other)
                /\ KeysApart(files) => other.file_tree = insights[1].file_tree

\* C28 witness: insights of three records with segments of their own, two of
\* them in one directory, of which another order gives the extension entries
\* in another sequence.
C28_Witness ==
    /\ insights # None /\ Len(files) = 3 /\ KeysApart(files)
    /\ \E i, j \in 1..3 : i # j /\ PathParent(files[i].path) = PathParent(files[j].path)
    /\ \E fl \in Reordered(files) :
          /\ fl # files
          /\ GenerateInsightsData(fl, now).file_types # insights[1].file_types

\* C27: aggregation is a pure function of the record list and the time it is
\* given, and reads no clock of its own: generate_insights is given the
\* records only, so two aggregations of the same record list give identical
\* results, however much time passes between them.
C27_SameRecordsSameInsights ==
    [][ (insights # None /\ insights' # None /\ files' = files) => insights' = insights ]_vars

\* C29: the count store_file_infos returns is the number of records stored
\* without an error: no record with a recorded error is counted, so the count
\* and the number of recorded errors add up to the number of input records.
C29_CountPlusErrorsIsInputs ==
    st_return # None =>
        /\ st_return[1] + Len(st_errors) = Len(st_infos)
        /\ st_return[1] = Cardinality({ k \in 1..Len(st_infos) :
                                          \A j \in 1..Len(st_errors) : st_errors[j] # k })

\* C30: a stored record is read back with the has_video_metadata it was
\* stored with: a video stored without a duration is retrieved with
\* video_duration absent and has_video_metadata false, and a video stored with
\* a duration is retrieved with that duration.
C30_RoundTripKeepsVideoMetadata ==
    st_retrieved # None =>
        \A k \in 1..Len(st_retrieved[1]) :
            \A j \in 1..Len(st_files_rows) :
                LET stored == st_infos[st_files_rows[j]]
                IN  st_retrieved[1][k].path = stored.path =>
                        /\ has_video_metadata(st_retrieved[1][k]) = has_video_metadata(stored)
                        /\ is_video(stored) =>
                              st_retrieved[1][k].video_duration = stored.video_duration

====
